---- MODULE Spec2Model ----
(***************************************************************************)
(* A model of flow's reactivation classifier front end                     *)
(* (flow/classifier/train.py): train_classifier, _get_traces,              *)
(* _get_run_onsets, _nan_cells and classify_reactivations.                 *)
(*                                                                         *)
(* Every Python function is a sequence of steps driven by pc.  A raised    *)
(* exception ends the call: failure names the exception class and pc stays *)
(* at the step that raised.  The Trace Source (trace2p) and the AODE model *)
(* are collaborators outside train.py; what they return is drawn from      *)
(* small sets when the call is made.                                       *)
(*                                                                         *)
(* The metadata catalog (flow/metadata/metadata.py, parser.py) is modelled *)
(* by its file, its cache and the calls that change them.                  *)
(***************************************************************************)
EXTENDS Integers, Sequences, FiniteSets, TLC

VARIABLES
    pc,             \* position in the call being modelled
    failure,        \* "none", or the class of the exception that ended the call
    run,            \* the target run (train_classifier's / classify's run)
    training_runs,  \* None or Some(sequence of runs)
    running_runs,   \* None or Some(sequence of runs)
    training_date,  \* None or Some(date)
    params,         \* the parameter dictionary (the keys the model reads)
    pars,           \* the keyword arguments train_classifier was called with
    all_cses,       \* onset-class -> class remapping
    fetches,        \* number of trace2p() fetches made so far
    outBound,       \* whether _get_traces' local  out  has been assigned
    out,            \* _get_traces' local  out : class -> sequence of windows
    todo,           \* training runs the loop at line 415 has not yet visited
    extracted,      \* the buckets as they stood before line 463 (history)
    occurring,      \* <<run, onset class>> held by the training runs visited (history)
    traces,         \* the Class Bucket as arrays: class -> sequence of cells x frames data
    model,          \* None or Some(the trained AODE model)
    nan_cells,      \* None or Some(the NaN-Cell Mask)
    merge_cses,     \* classify_reactivations' merge_cses: None or Some(list)
    replace_temporal_prior,  \* None or Some(vector over the frames)
    replace_data,   \* None or Some(cells x frames data handed in by the caller)
    full_traces,    \* None or Some(cells x frames data of the target run)
    stim_mask,      \* None or Some(mask over the frames)
    trial_masks,    \* history: None or Some(the three masks t2p.trialmask gave)
    used_priors,    \* None or Some(what assign_temporal_priors was handed)
    results,        \* None or Some(class -> series), as model.compare returned it
    bundle,         \* None or Some(the dictionary classify_reactivations returns)
    activity_args,  \* None or Some(the run and the arguments _activity is called with)
    activity,       \* None or Some(_activity's locals and what it returned)
    file,           \* the metadata file: the dictionary json.load gives
    metadata_cache, \* parser._metadata: None or Some(dictionary)
    call,           \* history: the last metadata call and the exception it raised
    before,         \* history: file and cache when the last call began
    ncalls,         \* number of metadata calls made
    last_added,     \* history: the add_run call that last changed the file
    listed          \* history: run_types of the last runs() call and its result

trainVars == <<pc, failure, run, training_runs, running_runs, training_date,
               params, pars, all_cses, fetches, outBound, out, todo, extracted,
               occurring>>

modelVars == <<traces, model, nan_cells>>

classifyVars == <<merge_cses, replace_temporal_prior, replace_data, full_traces,
                  stim_mask, trial_masks, used_priors, results, bundle,
                  activity_args,
                  activity>>

metaVars == <<file, metadata_cache, call, before, ncalls, last_added, listed>>

vars == <<trainVars, modelVars, classifyVars, metaVars>>

----------------------------------------------------------------------------
(* Bounds of the model *)

\* frames in every run's trace
NFrames == 3
\* onsets one Trace Source call returns at most
MaxOnsets == 1

----------------------------------------------------------------------------
(* The world the calls run in *)

Runs == {1, 2, 3}
Dates == {1, 2}
Cells == {1, 2}
Frames == 0 .. (NFrames - 1)

\* run.parent: runs 1 and 2 were recorded on date 1, run 3 on date 2
Parent(r) == IF r = 3 THEN 2 ELSE 1

\* run.run_type; every run is tagged 'hungry'
RunType(r) == IF r = 2 THEN "running" ELSE "training"

None == <<>>
Some(x) == <<x>>
IsNone(o) == o = <<>>
Val(o) == o[1]

Min(a, b) == IF a < b THEN a ELSE b
Max(a, b) == IF a > b THEN a ELSE b

\* the ascending sequence of a set of integers (a RunSorter iterates in order)
RECURSIVE SortedSeq(_)
SortedSeq(S) ==
    IF S = {} THEN <<>>
    ELSE LET m == CHOOSE x \in S : \A y \in S : x <= y
         IN  <<m>> \o SortedSeq(S \ {m})

SeqRange(s) == {s[i] : i \in 1 .. Len(s)}

\* training_date.runs(run_types=[t], tags=['hungry'])
DateRuns(d, t) == SortedSeq({r \in Runs : Parent(r) = d /\ RunType(r) = t})

----------------------------------------------------------------------------
(* config.default(): the entries train.py reads *)

ProbabilityKeys == {"plus", "other", "other-running", "disengaged1"}
TrainingEquivalent == [ncs \in {"blank"} |-> "other"]

\* 'disengaged' in key
HasDisengaged(key) == key \in {"disengaged1"}
\* 'other' in cs
HasOther(cs) == cs \in {"other", "other-running"}

\* onset classes a training run can hold (t2p.cses()), in the order listed
OnsetClassOrder == <<"plus", "blank", "odd">>
OnsetClasses == SeqRange(OnsetClassOrder)

\* lines 82-84
AllCses ==
    LET ident == {key \in ProbabilityKeys : ~HasDisengaged(key)}
    IN  [ncs \in ident \cup DOMAIN TrainingEquivalent |->
            IF ncs \in DOMAIN TrainingEquivalent
            THEN TrainingEquivalent[ncs] ELSE ncs]

\* _get_traces' defaults for the running test (lines 358-359): 4 cm/s, 0.3
running_threshold_cms == 4
running_fraction_num == 3
running_fraction_den == 10
SpeedValues == {0, 8}

----------------------------------------------------------------------------
(* Windows *)

\* number of frames of the numpy slice  trs[:, start:start + length]
SliceLen(start, length) ==
    Max(0, Min(start + length, NFrames) - Min(start, NFrames))

\* a window: the slice of run r's trace at start; n is the slice's frame count,
\* via the pass that produced it
Window(r, start, length, via) ==
    [run |-> r, start |-> start, n |-> SliceLen(start, length), via |-> via]

\* out with key cs present
WithKey(o, cs) ==
    [k \in DOMAIN o \cup {cs} |-> IF k \in DOMAIN o THEN o[k] ELSE <<>>]

Append2(o, cs, w) == [o EXCEPT ![cs] = Append(@, w)]

\* onset lists a Trace Source call can return
OnsetLists(S) == {SortedSeq(T) : T \in {U \in SUBSET S : Cardinality(U) <= MaxOnsets}}

----------------------------------------------------------------------------
(* train_classifier: resolving the date and the runs (lines 50-84) *)

Params ==
    [remove_stim : BOOLEAN,
     max_n_onsets : {-1, 1},
     stimulus_frames : {2},
     stimulus_offset_frames : {0, 1},
     analog_training_multiplier : {1},
     analog_comparison_multiplier : {1},
     temporal_dependent_priors : {TRUE},
     trace_type : {"deconvolved"},
     provenance : {None}]

RunLists == {SortedSeq(S) : S \in SUBSET Runs}

\* no metadata call is being looked at
MetaIdle ==
    /\ file = <<>>
    /\ metadata_cache = None
    /\ call = <<>>
    /\ before = <<>>
    /\ ncalls = 0
    /\ last_added = <<>>
    /\ listed = <<>>

Init ==
    /\ pc = "start"
    /\ failure = "none"
    /\ run \in Runs
    /\ training_runs \in {None} \cup {Some(l) : l \in RunLists}
    /\ running_runs \in {None} \cup {Some(l) : l \in RunLists}
    /\ training_date \in {None} \cup {Some(d) : d \in Dates}
    /\ params \in Params
    /\ all_cses = <<>>
    /\ pars = <<>>
    /\ MetaIdle
    /\ fetches = 0
    /\ outBound = FALSE
    /\ out = <<>>
    /\ todo = <<>>
    /\ extracted = <<>>
    /\ occurring = {}
    /\ traces = <<>>
    /\ model = None
    /\ nan_cells = None
    /\ merge_cses = None
    /\ replace_temporal_prior = None
    /\ replace_data = None
    /\ activity_args = None
    /\ activity = None
    /\ full_traces = None
    /\ stim_mask = None
    /\ trial_masks = None
    /\ used_priors = None
    /\ results = None
    /\ bundle = None

\* raise: the call ends where it stands
Fail(kind) == failure' = kind /\ UNCHANGED pc

\* a variant of RunsOwned that is content with one run of the date
RunsOwnedAny(runs, date) ==
    runs = <<>> \/ \E i \in 1 .. Len(runs) : Parent(runs[i]) = date

\* all(run.parent == training_date for run in runs)
RunsOwned(runs, date) == \A i \in 1 .. Len(runs) : Parent(runs[i]) = date

\* lines 50-57
ResolveDate ==
    /\ pc = "start"
    /\ failure = "none"
    /\ IF IsNone(training_date)
       THEN /\ training_date' = Some(Parent(run))
            /\ pc' = "runs"
            /\ UNCHANGED failure
       ELSE IF Val(training_date) # Parent(run)
       THEN /\ Fail("NotImplementedError")
            /\ UNCHANGED training_date
       ELSE /\ pc' = "runs"
            /\ UNCHANGED <<failure, training_date>>
    /\ UNCHANGED <<run, training_runs, running_runs, params, pars, metaVars, all_cses,
                   fetches, outBound, out, todo, extracted, occurring,
                   modelVars, classifyVars>>

\* a variant of ResolveRuns that opens the runs' traces before the asserts
ResolveRunsAfterFetch ==
    /\ pc = "runs"
    /\ failure = "none"
    /\ LET d == Val(training_date)
           given == (IF IsNone(training_runs) THEN <<>> ELSE Val(training_runs))
                    \o (IF IsNone(running_runs) THEN <<>> ELSE Val(running_runs))
       IN  /\ fetches' = fetches + Len(given)
           /\ IF \E i \in 1 .. Len(given) : Parent(given[i]) # d
              THEN Fail("AssertionError") /\ UNCHANGED <<training_runs, running_runs>>
              ELSE /\ training_runs' =
                          IF IsNone(training_runs)
                          THEN Some(DateRuns(d, "training")) ELSE training_runs
                   /\ running_runs' =
                          IF IsNone(running_runs)
                          THEN Some(DateRuns(d, "running")) ELSE running_runs
                   /\ pc' = "params"
                   /\ UNCHANGED failure
    /\ UNCHANGED <<run, training_date, params, pars, metaVars, all_cses, outBound, out, todo,
                   extracted, occurring, modelVars, classifyVars>>

\* lines 59-69
ResolveRuns ==
    /\ pc = "runs"
    /\ failure = "none"
    /\ LET d == Val(training_date)
       IN  IF ~IsNone(training_runs) /\ ~RunsOwned(Val(training_runs), d)
           THEN Fail("AssertionError") /\ UNCHANGED <<training_runs, running_runs>>
           ELSE IF ~IsNone(running_runs) /\ ~RunsOwned(Val(running_runs), d)
           THEN Fail("AssertionError") /\ UNCHANGED <<training_runs, running_runs>>
           ELSE /\ training_runs' =
                       IF IsNone(training_runs)
                       THEN Some(DateRuns(d, "training")) ELSE training_runs
                /\ running_runs' =
                       IF IsNone(running_runs)
                       THEN Some(DateRuns(d, "running")) ELSE running_runs
                /\ pc' = "params"
                /\ UNCHANGED failure
    /\ UNCHANGED <<run, training_date, params, pars, metaVars, all_cses,
                   fetches, outBound, out, todo, extracted, occurring,
                   modelVars, classifyVars>>

\* lines 71-84
ResolveParams ==
    /\ pc = "params"
    /\ failure = "none"
    /\ all_cses' = AllCses
    /\ pc' = "get_traces"
    /\ UNCHANGED <<failure, run, training_runs, running_runs, training_date,
                   params, pars, metaVars, fetches, outBound, out, todo, extracted, occurring,
                   modelVars, classifyVars>>

----------------------------------------------------------------------------
(* _get_run_onsets and _get_traces (lines 356-514) *)

\* onsets t2p.nocs(length, pad, threshold) can return: stretches of length
\* frames that lie inside the trace
NocsFrames(length) == {f \in Frames : f + length <= NFrames}

\* lines 510-512
RECURSIVE RunOnsetWindows(_, _, _, _)
RunOnsetWindows(r, others, length_fr, offset_fr) ==
    IF others = <<>> THEN <<>>
    ELSE <<Window(r, Head(others) + offset_fr, length_fr, "run-onsets")>>
         \o RunOnsetWindows(r, Tail(others), length_fr, offset_fr)

\* lines 502-514; nocs[r] is what t2p.nocs returns for run r
RECURSIVE GetRunOnsets(_, _, _, _)
GetRunOnsets(runs, nocs, length_fr, offset_fr) ==
    IF runs = <<>> THEN <<>>
    ELSE RunOnsetWindows(Head(runs), nocs[Head(runs)], length_fr, offset_fr)
         \o GetRunOnsets(Tail(runs), nocs, length_fr, offset_fr)

\* lines 404-413
GetTracesStart ==
    /\ pc = "get_traces"
    /\ failure = "none"
    /\ LET rr == Val(running_runs)
       IN  IF run \notin SeqRange(rr)
           THEN \E nocs \in [SeqRange(rr) ->
                                OnsetLists(NocsFrames(params.stimulus_frames))] :
                   /\ out' = [cs \in {"other-running"} |->
                                 GetRunOnsets(rr, nocs, params.stimulus_frames,
                                              params.stimulus_offset_frames)]
                   /\ outBound' = TRUE
                   /\ fetches' = fetches + Len(rr)
           ELSE UNCHANGED <<out, outBound, fetches>>
    /\ todo' = Val(training_runs)
    /\ pc' = IF Val(training_runs) = <<>> THEN "subsample" ELSE "loop"
    /\ UNCHANGED <<failure, run, training_runs, running_runs, training_date,
                   params, pars, metaVars, all_cses, extracted, occurring, modelVars,
                   classifyVars>>

\* a variant of TakesStimulus that forgets the target-run test
TakesStimulusAlways(remove_stim, training_run, target) == TRUE

\* line 423
TakesStimulus(remove_stim, training_run, target) ==
    remove_stim \/ training_run # target

\* a variant of InitBucket that creates the key only when there is an onset
InitBucketOnOnset(o, cs, ons) == IF ons = <<>> THEN o ELSE WithKey(o, cs)

\* lines 432-433
InitBucket(o, cs, ons) == WithKey(o, cs)

\* lines 438-443 for one onset-class; acc = [out, bound, err]
RECURSIVE AppendOnsets(_, _, _, _, _, _)
AppendOnsets(o, cs, r, ons, length_fr, offset_fr) ==
    IF ons = <<>> THEN o
    ELSE LET w == Window(r, Head(ons) + offset_fr, length_fr, "stim")
             o1 == IF w.n = length_fr /\ cs \in DOMAIN o
                   THEN Append2(o, cs, w) ELSE o
         IN  AppendOnsets(o1, cs, r, Tail(ons), length_fr, offset_fr)

\* lines 425-443; ncses is t2p.cses(), ons[ncs] is t2p.csonsets(ncs, ...)
RECURSIVE StimPass(_, _, _, _, _, _)
StimPass(acc, r, ncses, ons, length_fr, offset_fr) ==
    IF ncses = <<>> \/ acc.err # "none" THEN acc
    ELSE LET ncs == Head(ncses)
             next ==
                 IF ncs \notin DOMAIN all_cses THEN acc
                 ELSE IF ~acc.bound THEN [acc EXCEPT !.err = "NameError"]
                 ELSE LET cs == all_cses[ncs]
                      IN  [acc EXCEPT !.out =
                              AppendOnsets(InitBucket(acc.out, cs, ons[ncs]), cs,
                                           r, ons[ncs], length_fr, offset_fr)]
         IN  StimPass(next, r, Tail(ncses), ons, length_fr, offset_fr)

\* running = t2p.speed() > running_threshold_cms, counted over the slice
RunningFrames(speed, start, length_fr) ==
    Cardinality({f \in Frames : /\ start <= f
                                /\ f < start + length_fr
                                /\ speed[f + 1] > running_threshold_cms})

\* lines 455-456: nanmean(running[start:start + length_fr]) > running_fraction;
\* the mean of an empty slice is NaN, and NaN > x is False
IsRunning(speed, start, length_fr) ==
    LET n == SliceLen(start, length_fr)
    IN  /\ n > 0
        /\ RunningFrames(speed, start, length_fr) * running_fraction_den
               > running_fraction_num * n

\* lines 453-461
RECURSIVE OthersPass(_, _, _, _, _, _)
OthersPass(acc, r, others, speed, length_fr, offset_fr) ==
    IF others = <<>> \/ acc.err # "none" THEN acc
    ELSE LET start == Head(others) + offset_fr
             cs == IF IsRunning(speed, start, length_fr)
                   THEN "other-running" ELSE "other"
             next ==
                 IF ~acc.bound THEN [acc EXCEPT !.err = "NameError"]
                 ELSE IF cs \notin DOMAIN acc.out
                 THEN [acc EXCEPT !.err = "KeyError"]
                 ELSE [acc EXCEPT !.out =
                          Append2(@, cs, Window(r, start, length_fr, "nocs"))]
         IN  OthersPass(next, r, Tail(others), speed, length_fr, offset_fr)

\* the subsets of S with at most k elements
RECURSIVE SubsetsUpTo(_, _)
SubsetsUpTo(S, k) ==
    IF k = 0 THEN {{}}
    ELSE LET smaller == SubsetsUpTo(S, k - 1)
         IN  smaller \cup {T \cup {x} : T \in smaller, x \in S}

\* what the Trace Source answers for one run: onsets of the classes asked for
\* (line 435) at any frame, and stimulus-free onsets ("nocs", line 449) at the
\* frames t2p.nocs can return when it is asked, at most MaxOnsets in all
OnsetEvents(asked, nocsAsked, length_fr) ==
    SubsetsUpTo((asked \X Frames)
                    \cup (IF nocsAsked THEN {"nocs"} \X NocsFrames(length_fr)
                          ELSE {}),
                MaxOnsets)

\* the sorted onsets of class ncs among the events
OnsetsOf(events, ncs) == SortedSeq({f \in Frames : <<ncs, f>> \in events})

\* t2p.speed(): no speed trace, a constant one, or one that is fast in the
\* first frame only
Speeds ==
    {<<>>} \cup {[f \in 1 .. NFrames |-> v] : v \in SpeedValues}
           \cup {[f \in 1 .. NFrames |-> IF f = 1 THEN 8 ELSE 0]}

\* lines 415-461: one pass of the loop over the training runs
TrainingRunPass ==
    /\ pc = "loop"
    /\ failure = "none"
    /\ LET r == Head(todo)
           length_fr == params.stimulus_frames
           offset_fr == params.stimulus_offset_frames
           takes == TakesStimulus(params.remove_stim, r, run)
       IN  \E here \in SUBSET OnsetClasses :
           \E events \in OnsetEvents(IF takes THEN here \cap DOMAIN all_cses
                                      ELSE {}, r # run, length_fr) :
           \E speed \in (IF r # run THEN Speeds ELSE {<<>>}) :
               /\ LET ons == [ncs \in here |-> OnsetsOf(events, ncs)]
                      others == OnsetsOf(events, "nocs")
                      ncses == SelectSeq(OnsetClassOrder, LAMBDA c : c \in here)
                      acc0 == [out |-> out, bound |-> outBound, err |-> "none"]
                      acc1 == IF takes
                              THEN StimPass(acc0, r, ncses, ons, length_fr, offset_fr)
                              ELSE acc0
                      acc2 == IF r # run /\ Len(speed) > 0
                              THEN OthersPass(acc1, r, others, speed,
                                              length_fr, offset_fr)
                              ELSE acc1
                  IN  IF acc2.err # "none"
                      THEN Fail(acc2.err) /\ UNCHANGED <<out, todo>>
                      ELSE /\ out' = acc2.out
                           /\ todo' = Tail(todo)
                           /\ pc' = IF Tail(todo) = <<>> THEN "subsample" ELSE "loop"
                           /\ UNCHANGED failure
               /\ occurring' = occurring \cup
                      {<<r, ncs>> : ncs \in here \cap DOMAIN all_cses}
    /\ fetches' = fetches + 1
    /\ UNCHANGED <<run, training_runs, running_runs, training_date,
                   params, pars, metaVars, all_cses, outBound, extracted, modelVars,
                   classifyVars>>

\* np.random.choice(a, size, replace=False) where a is a list of windows: each
\* window is a cells x frames array, so np.array(a) has three dimensions and
\* choice raises ValueError('a must be 1-dimensional'): it has no result
RandomChoice(a, size) == {}

\* lines 463-472
Subsample ==
    /\ pc = "subsample"
    /\ failure = "none"
    /\ extracted' = out
    /\ LET cap == params.max_n_onsets
           over == {cs \in DOMAIN out : ~HasOther(cs) /\ Len(out[cs]) > cap}
       IN  IF cap > 0 /\ ~outBound
           THEN Fail("NameError") /\ UNCHANGED out
           ELSE IF cap > 0 /\ \E cs \in over : RandomChoice(out[cs], cap) = {}
           THEN Fail("ValueError") /\ UNCHANGED out
           ELSE IF cap > 0
           THEN /\ out' \in {o \in [DOMAIN out -> UNION {RandomChoice(out[cs], cap)
                                                         \cup {out[cs]} : cs \in DOMAIN out}] :
                                \A cs \in DOMAIN out :
                                    IF cs \in over
                                    THEN o[cs] \in RandomChoice(out[cs], cap)
                                    ELSE o[cs] = out[cs]}
                /\ pc' = "arrays"
                /\ UNCHANGED failure
           ELSE /\ pc' = "arrays"
                /\ UNCHANGED <<failure, out>>
    /\ UNCHANGED <<run, training_runs, running_runs, training_date,
                   params, pars, metaVars, all_cses, fetches, outBound, todo, occurring,
                   modelVars, classifyVars>>

\* np.array(list of windows) needs windows of one shape
Ragged(ws) == \E i, j \in 1 .. Len(ws) : ws[i].n # ws[j].n

\* lines 474-477
ToArrays ==
    /\ pc = "arrays"
    /\ failure = "none"
    /\ IF ~outBound
       THEN Fail("NameError")
       ELSE IF \E cs \in DOMAIN out : Ragged(out[cs])
       THEN Fail("ValueError")
       ELSE pc' = "clip" /\ UNCHANGED failure
    /\ UNCHANGED <<run, training_runs, running_runs, training_date, params, pars, metaVars,
                   all_cses, fetches, outBound, out, todo, extracted, occurring,
                   modelVars, classifyVars>>

----------------------------------------------------------------------------
(* train_classifier: clipping, training and the NaN-Cell Mask (lines 101-120) *)

\* a float that is not finite
NaN == -1
IsFinite(x) == x # NaN

\* a variant of ClipUnit that clips at 0 only
ClipUnitBelow(x, multiplier) ==
    IF x = NaN THEN NaN ELSE Max(0, x * multiplier)

\* np.clip(x * multiplier, 0, 1); NaN stays NaN
ClipUnit(x, multiplier) ==
    IF x = NaN THEN NaN ELSE Max(0, Min(x * multiplier, 1))

\* the finite value every cell of every run holds at frame f: above 1 at
\* frame 0, then 0, then below 0
RawValue(f) == 2 - 2 * f

\* the traces the runs can hold: finite entries with at most one NaN, at spot,
\* which is the second frame of one cell of the first of the runs
TraceValue(spot, r, c, f) == IF <<r, c, f>> \in spot THEN NaN ELSE RawValue(f)
Spots(runs) ==
    {{}} \cup (IF runs = <<>> THEN {} ELSE {{<<Head(runs), c, 1>>} : c \in Cells})

\* trs[:, start:start + length_fr] of window w
WindowData(w, spot) ==
    [c \in Cells |-> [k \in 1 .. w.n |-> TraceValue(spot, w.run, c, w.start + k - 1)]]

\* lines 102-104
ClipTraces(bucket, multiplier) ==
    [cs \in DOMAIN bucket |->
        [i \in 1 .. Len(bucket[cs]) |->
            [c \in Cells |->
                [k \in 1 .. Len(bucket[cs][i][c]) |->
                    ClipUnit(bucket[cs][i][c][k], multiplier)]]]]

\* AODE.train: a class with an empty bucket cannot be fitted
TrainRaises(bucket) == \E cs \in DOMAIN bucket : Len(bucket[cs]) = 0

\* AODE.train: the trained model holds the buckets' class names
Trained(bucket) == [classnames |-> DOMAIN bucket]

\* lines 101-118
TrainModel ==
    /\ pc = "clip"
    /\ failure = "none"
    /\ \E spot \in Spots(Val(training_runs)) :
           traces' = ClipTraces(
               [cs \in DOMAIN out |->
                   [i \in 1 .. Len(out[cs]) |-> WindowData(out[cs][i], spot)]],
               params.analog_training_multiplier)
    /\ IF TrainRaises(traces')
       THEN Fail("InsufficientDataError") /\ UNCHANGED <<model, params>>
       ELSE /\ model' = Some(Trained(traces'))
            /\ params' = [params EXCEPT !.provenance =
                              Some([comparison_run |-> run,
                                    training_date |-> Val(training_date),
                                    training_other_running_runs |-> Val(running_runs),
                                    training_runs |-> Val(training_runs)])]
            /\ pc' = "nan_cells"
            /\ UNCHANGED failure
    /\ UNCHANGED <<run, training_runs, running_runs, training_date, pars, metaVars,
                   all_cses,
                   fetches, outBound, out, todo, extracted, occurring, nan_cells,
                   classifyVars>>

\* lines 559-567: ncells, -1 while no class with windows has been seen
NCells(bucket) ==
    IF \E cs \in DOMAIN bucket : Len(bucket[cs]) > 0
    THEN Cardinality(Cells) ELSE -1

\* lines 561-567: the cells with a non-finite value in some window
NanCellSet(bucket) ==
    {c \in Cells : \E cs \in DOMAIN bucket : \E i \in 1 .. Len(bucket[cs]) :
        \E k \in 1 .. Len(bucket[cs][i][c]) : ~IsFinite(bucket[cs][i][c][k])}

\* lines 570-578: np.zeros(ncells) raises ValueError for ncells = -1
NanCellsRaises(bucket) == NCells(bucket) < 0
NanCells(bucket) == [c \in 1 .. NCells(bucket) |-> c \in NanCellSet(bucket)]

\* line 120 (lines 543-578)
NanCellsCall ==
    /\ pc = "nan_cells"
    /\ failure = "none"
    /\ IF NanCellsRaises(traces)
       THEN Fail("ValueError") /\ UNCHANGED nan_cells
       ELSE /\ nan_cells' = Some(NanCells(traces))
            /\ pc' = "trained"
            /\ UNCHANGED failure
    /\ UNCHANGED <<run, training_runs, running_runs, training_date, params, pars, metaVars,
                   all_cses, fetches, outBound, out, todo, extracted, occurring,
                   traces, model, classifyVars>>

Next ==
    \/ ResolveDate
    \/ ResolveRuns
    \/ ResolveParams
    \/ GetTracesStart
    \/ TrainingRunPass
    \/ Subsample
    \/ ToArrays
    \/ TrainModel
    \/ NanCellsCall

Spec == Init /\ [][Next]_vars

----------------------------------------------------------------------------
(* _nan_cells on its own: every bucket of up to MaxWindows windows a class *)

\* windows one class holds at most in a bucket handed to _nan_cells
MaxWindows == 1

NanClasses == {"plus", "other-running"}
WindowArrays == [Cells -> [1 .. 2 -> {0, NaN}]]
WindowLists == UNION {[1 .. n -> WindowArrays] : n \in 0 .. MaxWindows}

NanInit ==
    /\ pc = "nan_cells"
    /\ failure = "none"
    /\ run = 1
    /\ training_runs = Some(DateRuns(1, "training"))
    /\ running_runs = Some(DateRuns(1, "running"))
    /\ training_date = Some(1)
    /\ params \in Params
    /\ params.remove_stim /\ params.max_n_onsets = -1
    /\ params.stimulus_offset_frames = 0
    /\ all_cses = AllCses
    /\ pars = <<>>
    /\ MetaIdle
    /\ fetches = 0
    /\ outBound = FALSE
    /\ out = <<>>
    /\ todo = <<>>
    /\ extracted = <<>>
    /\ occurring = {}
    /\ traces \in [NanClasses -> WindowLists]
    /\ model = None
    /\ nan_cells = None
    /\ merge_cses = None
    /\ replace_temporal_prior = None
    /\ replace_data = None
    /\ activity_args = None
    /\ activity = None
    /\ full_traces = None
    /\ stim_mask = None
    /\ trial_masks = None
    /\ used_priors = None
    /\ results = None
    /\ bundle = None

NanNext == NanCellsCall

SpecNan == NanInit /\ [][NanNext]_vars

----------------------------------------------------------------------------
(* _activity (lines 250-353) *)

\* most frames a run handed to _activity holds
MaxActFrames == 51

\* activity values are counted in hundredths
fallback_baseline == 1
fallback_variance == 8
trim_percent == 2
skip_seconds == 4

RunTypes == {"spontaneous", "training", "running"}
Tags == {"sated", "hungry"}
TraceTypes == {"deconvolved", "dff"}

\* the onset classes a training run can hold, and the patterns of line 328
ActClasses == {"plus", "neutral", "minus", "pavlovian", "blank"}
BlankedClasses == {"plus", "neutral", "minus", "pavlovian"}

\* frame rates in tenths of a frame per second
FrameRates == {6, 155}

\* lines 277-288: the run type and tags _activity cannot handle
\* a variant that rejects spontaneous runs only
UnsupportedKindSpontaneousOnly(run_type, tags) ==
    run_type = "spontaneous" /\ tags \cap {"sated", "hungry"} = {}

\* lines 277-288: the else branch is taken
UnsupportedKind(run_type, tags) ==
    /\ ~(run_type = "spontaneous" /\ "sated" \in tags)
    /\ ~(run_type = "spontaneous" /\ "hungry" \in tags)
    /\ run_type # "training"

\* the mean activity of a frame over the cells (hundredths): an even number
\* that is not sorted along the frames
ActValue(f) == 2 * ((3 * f) % 7)

\* what the Trace Source holds for a training run: the frame count, the frame
\* rate, at most one stimulus onset and at most one frame without a finite
\* value in any cell
TrainingData ==
    [nframes : 0 .. MaxActFrames,
     framerate : FrameRates,
     onset : {None} \cup {Some([cs |-> cs, frame |-> f]) :
                              cs \in ActClasses, f \in {0, 1}},
     nanframe : {None, Some(2)}]

\* what the Trace Source holds for a spontaneous run: the frames left by
\* inactivity() after lastonset(), and the cells line 307 finds too active
\* (never all of them: a cell at the median is not above it)
SpontaneousData ==
    {d \in [kept : SUBSET (0 .. 2), outs : [Cells -> BOOLEAN]] :
        \E c \in Cells : ~d.outs[c]}

\* a variant that blanks one second
SkipFramesOneSecond(framerate) == framerate \div 10

\* line 326: int(t2p.framerate*4), the frame rate in tenths
SkipFrames(framerate) == (framerate * skip_seconds) \div 10

\* lines 325-332 for one run: the frames whose mean activity stays finite
RECURSIVE FiniteFrames(_, _, _)
FiniteFrames(d, classes, f) ==
    IF f >= d.nframes THEN <<>>
    ELSE LET blanked ==
                 /\ ~IsNone(d.onset)
                 /\ Val(d.onset).cs \in classes
                 /\ Val(d.onset).frame <= f
                 /\ f < Val(d.onset).frame + SkipFrames(d.framerate)
             nan == ~IsNone(d.nanframe) /\ Val(d.nanframe) = f
         IN  (IF blanked \/ nan THEN <<>>
              ELSE <<[frame |-> f, value |-> ActValue(f)]>>)
             \o FiniteFrames(d, classes, f + 1)

\* np.sort
RECURSIVE InsertSorted(_, _)
InsertSorted(x, s) ==
    IF s = <<>> THEN <<x>>
    ELSE IF x.value <= Head(s).value THEN <<x>> \o s
    ELSE <<Head(s)>> \o InsertSorted(x, Tail(s))

RECURSIVE SortByValue(_)
SortByValue(s) ==
    IF s = <<>> THEN <<>> ELSE InsertSorted(Head(s), SortByValue(Tail(s)))

\* the Python slice s[start:stop] for start >= 0
PySlice(s, start, stop) ==
    LET n == Len(s)
        hi == IF stop < 0 THEN Max(0, n + stop) ELSE Min(stop, n)
        lo == Min(start, n)
    IN  IF hi <= lo THEN <<>> ELSE SubSeq(s, lo + 1, hi)

\* lines 338-341: trim = int(percent*popact.size/100.); popact[trim:-trim]
Trim(popact) ==
    LET trim == (trim_percent * Len(popact)) \div 100
    IN  PySlice(popact, trim, 0 - trim)

\* np.median of a sorted sequence; NaN for an empty one
Median(s) ==
    LET n == Len(s)
    IN  IF n = 0 THEN NaN
        ELSE IF n % 2 = 1 THEN s[(n + 1) \div 2].value
        ELSE (s[n \div 2].value + s[n \div 2 + 1].value) \div 2

\* np.std, kept as the sequence it is taken of; NaN for an empty one
Std(s) == IF s = <<>> THEN [kind |-> "nan"] ELSE [kind |-> "std", of |-> s]

\* lines 347-351
Scaled(baseline, variance, baseline_activity, baseline_sigma) ==
    IF IsNone(baseline)
    THEN [baseline |-> fallback_baseline,
          variance |-> [kind |-> "fixed",
                        value |-> fallback_variance * baseline_sigma]]
    ELSE [baseline |-> IF Val(baseline) = NaN THEN NaN
                       ELSE Val(baseline) * baseline_activity,
          variance |-> [Val(variance) EXCEPT !.kind =
                           IF @ = "nan" THEN "nan" ELSE "scaled"]
                       @@ [times |-> baseline_sigma]]

\* lines 321-345 for the training runs, each run's data given
TrainingActivity(data) ==
    LET pooled == FiniteFrames(data, BlankedClasses, 0)
        trimmed == Trim(SortByValue(pooled))
    IN  IF Len(pooled) > 0
        THEN [pooled |-> pooled, used |-> trimmed,
              baseline |-> Some(Median(trimmed)),
              variance |-> Some(Std(trimmed)),
              outliers |-> Some([c \in Cells |-> FALSE])]
        ELSE [pooled |-> pooled, used |-> <<>>, baseline |-> None,
              variance |-> None, outliers |-> None]

\* lines 292-319 for the spontaneous runs; the list of runs holds the run
\* itself, so len(popact) is the cell count and the branch of line 314 is taken
SpontaneousActivity(data) ==
    LET frames == SortedSeq(data.kept)
        pooled == [i \in 1 .. Len(frames) |->
                      [frame |-> frames[i], value |-> ActValue(frames[i])]]
        popact == SortByValue(pooled)
    IN  [pooled |-> pooled, used |-> popact,
         baseline |-> Some(Median(popact)),
         variance |-> Some(Std(popact)),
         outliers |-> Some(data.outs)]

\* the runs and arguments _activity can be called with
ActivityArgs ==
    [run_type : RunTypes, tags : SUBSET Tags, trace_type : TraceTypes,
     baseline_activity : {2}, baseline_sigma : {3}]

ActivityInit ==
    /\ pc = "activity"
    /\ failure = "none"
    /\ run = 1
    /\ training_runs = None
    /\ running_runs = None
    /\ training_date = None
    /\ params \in Params
    /\ params.remove_stim /\ params.max_n_onsets = -1
    /\ params.stimulus_offset_frames = 0
    /\ all_cses = <<>>
    /\ pars = <<>>
    /\ MetaIdle
    /\ fetches = 0
    /\ outBound = FALSE
    /\ out = <<>>
    /\ todo = <<>>
    /\ extracted = <<>>
    /\ occurring = {}
    /\ traces = <<>>
    /\ model = None
    /\ nan_cells = None
    /\ merge_cses = None
    /\ replace_temporal_prior = None
    /\ replace_data = None
    /\ full_traces = None
    /\ stim_mask = None
    /\ trial_masks = None
    /\ used_priors = None
    /\ results = None
    /\ bundle = None
    /\ activity_args \in {Some(a) : a \in ActivityArgs}
    /\ activity = None

\* what _activity returns for the locals of one branch
ActivityResult(locals, a) ==
    [pooled |-> locals.pooled, used |-> locals.used,
     outliers |-> locals.outliers]
    @@ Scaled(locals.baseline, locals.variance,
              a.baseline_activity, a.baseline_sigma)

\* lines 273-353
ActivityCall ==
    /\ pc = "activity"
    /\ failure = "none"
    /\ LET a == Val(activity_args)
       IN  IF a.trace_type # "deconvolved"
           THEN Fail("ValueError") /\ UNCHANGED <<activity, fetches>>
           ELSE IF UnsupportedKind(a.run_type, a.tags)
           THEN Fail("ValueError") /\ UNCHANGED <<activity, fetches>>
           ELSE /\ IF a.run_type = "spontaneous"
                   THEN \E data \in SpontaneousData :
                           activity' = Some(ActivityResult(
                                                SpontaneousActivity(data), a)
                                            @@ [data |-> data])
                   ELSE \E data \in TrainingData :
                           activity' = Some(ActivityResult(
                                                TrainingActivity(data), a)
                                            @@ [data |-> data])
                /\ fetches' = fetches + 1
                /\ pc' = "activity_done"
                /\ UNCHANGED failure
    /\ UNCHANGED <<run, training_runs, running_runs, training_date, params, pars, metaVars,
                   all_cses, outBound, out, todo, extracted, occurring,
                   modelVars, merge_cses, replace_temporal_prior, replace_data,
                   full_traces, stim_mask, trial_masks, used_priors, results,
                   bundle,
                   activity_args>>

ActivityNext == ActivityCall

SpecActivity == ActivityInit /\ [][ActivityNext]_vars

----------------------------------------------------------------------------
(* train_classifier: the parameters in frames (lines 71-79, 517-540) *)

\* date.framerate in tenths of a frame per second
DateFramerate(d) == IF d = 1 THEN 155 ELSE 50

\* a value of the parameter dictionary with its Python type
\* (v holds the number, or the entries of a tuple)
PyInt(n) == [type |-> "int", v |-> <<n>>]
PyFloat(n) == [type |-> "float", v |-> <<n>>]
PyTuple(a, b) == [type |-> "tuple", v |-> <<a, b>>]

\* config.default(): the keys that hold milliseconds, and one that holds
\* frames
ConfigDefault ==
    [k \in {"stimulus-training-ms", "stimulus-training-offset-ms",
            "classification-ms", "excluded-time-around-onsets-ms",
            "temporal-prior-fwhm-ms", "stimulus-frames"} |->
        CASE k = "stimulus-training-ms" -> PyInt(2000)
          [] k = "stimulus-training-offset-ms" -> PyInt(0)
          [] k = "classification-ms" -> PyInt(190)
          [] k = "excluded-time-around-onsets-ms" -> PyInt(100)
          [] k = "temporal-prior-fwhm-ms" -> PyInt(500)
          [] k = "stimulus-frames" -> PyInt(0)]

\* line 76: key.replace('_', '-')
DashKey(key) ==
    CASE key = "stimulus_training_ms" -> "stimulus-training-ms"
      [] key = "stimulus_training_offset_ms" -> "stimulus-training-offset-ms"
      [] key = "classification_ms" -> "classification-ms"
      [] key = "excluded_time_around_onsets_ms" ->
             "excluded-time-around-onsets-ms"
      [] key = "temporal_prior_fwhm_ms" -> "temporal-prior-fwhm-ms"
      [] key = "stimulus_frames" -> "stimulus-frames"

\* the values a caller passes for a keyword
ParsValues(key) ==
    CASE key = "stimulus_training_ms" -> {PyInt(500)}
      [] key = "stimulus_training_offset_ms" -> {PyInt(100)}
      [] key = "classification_ms" -> {PyInt(300)}
      [] key = "excluded_time_around_onsets_ms" ->
             {PyInt(300), PyTuple(0, 500), PyFloat(100)}
      [] key = "temporal_prior_fwhm_ms" -> {PyInt(1000)}
      [] key = "stimulus_frames" -> {PyInt(7)}

ParsKeys ==
    {"stimulus_training_ms", "stimulus_training_offset_ms", "classification_ms",
     "excluded_time_around_onsets_ms", "temporal_prior_fwhm_ms",
     "stimulus_frames"}

\* **pars: some of the keywords, each with one of its values
Overrides ==
    UNION {{f \in [K -> UNION {ParsValues(k) : k \in K}] :
               \A k \in K : f[k] \in ParsValues(k)} : K \in SUBSET ParsKeys}

\* lines 73-76
ApplyOverrides(defaults, given) ==
    LET set == {DashKey(key) : key \in DOMAIN given}
    IN  [k \in DOMAIN defaults \cup set |->
            IF k \in set
            THEN given[CHOOSE key \in DOMAIN given : DashKey(key) = k]
            ELSE defaults[k]]

\* a variant that drops the fraction
RoundDown(num, den, half_even) == num \div den

\* int(round(num / den)) for num >= 0: a tie goes to the even neighbour under
\* Python 3 (half_even) and away from zero under Python 2
Round(num, den, half_even) ==
    LET q == num \div den
        r == num % den
    IN  IF 2 * r < den THEN q
        ELSE IF 2 * r > den THEN q + 1
        ELSE IF half_even /\ q % 2 = 0 THEN q
        ELSE q + 1

\* int(round(ms/1000.0*framerate)), the frame rate in tenths
MsToFrames(ms, framerate, half_even) ==
    PyInt(Round(ms.v[1] * framerate, 10000, half_even))

\* lines 527-530
ExclusionTuple(value) ==
    IF value.type = "int" THEN PyTuple(value.v[1], value.v[1]) ELSE value

\* line 534 subscripts the exclusion time: a float raises TypeError
ConvertRaises(p) == p["excluded-time-around-onsets-ms"].type = "float"

\* lines 519-540
ConvertTimeToFrames(p, framerate, half_even) ==
    LET excl == ExclusionTuple(p["excluded-time-around-onsets-ms"])
    IN  [k \in DOMAIN p \cup {"stimulus-frames", "stimulus-offset-frames",
                              "classification-frames",
                              "excluded-time-around-onsets-frames",
                              "temporal-prior-fwhm-frames"} |->
            CASE k = "stimulus-frames" ->
                     MsToFrames(p["stimulus-training-ms"], framerate, half_even)
              [] k = "stimulus-offset-frames" ->
                     MsToFrames(p["stimulus-training-offset-ms"], framerate,
                                half_even)
              [] k = "classification-frames" ->
                     MsToFrames(p["classification-ms"], framerate, half_even)
              [] k = "excluded-time-around-onsets-ms" -> excl
              [] k = "excluded-time-around-onsets-frames" ->
                     PyTuple(
                         MsToFrames(PyInt(excl.v[1]), framerate, half_even).v[1],
                         MsToFrames(PyInt(excl.v[2]), framerate, half_even).v[1])
              [] k = "temporal-prior-fwhm-frames" ->
                     MsToFrames(p["temporal-prior-fwhm-ms"], framerate,
                                half_even)
              [] OTHER -> p[k]]

\* train_classifier with its date and runs resolved, before line 71
ConvertInit ==
    /\ pc = "params"
    /\ failure = "none"
    /\ run \in Runs
    /\ training_date = Some(Parent(run))
    /\ training_runs = Some(DateRuns(Parent(run), "training"))
    /\ running_runs = Some(DateRuns(Parent(run), "running"))
    /\ params = <<>>
    /\ pars \in Overrides
    /\ MetaIdle
    /\ all_cses = <<>>
    /\ fetches = 0
    /\ outBound = FALSE
    /\ out = <<>>
    /\ todo = <<>>
    /\ extracted = <<>>
    /\ occurring = {}
    /\ traces = <<>>
    /\ model = None
    /\ nan_cells = None
    /\ merge_cses = None
    /\ replace_temporal_prior = None
    /\ replace_data = None
    /\ full_traces = None
    /\ stim_mask = None
    /\ trial_masks = None
    /\ used_priors = None
    /\ results = None
    /\ bundle = None
    /\ activity_args = None
    /\ activity = None

\* lines 71-79; the rounding of a tie is the interpreter's
ConvertParams ==
    /\ pc = "params"
    /\ failure = "none"
    /\ LET merged == ApplyOverrides(ConfigDefault, pars)
       IN  IF ConvertRaises(merged)
           THEN Fail("TypeError") /\ UNCHANGED params
           ELSE /\ \E half_even \in BOOLEAN :
                       params' = ConvertTimeToFrames(
                                     merged, DateFramerate(Val(training_date)),
                                     half_even)
                /\ pc' = "converted"
                /\ UNCHANGED failure
    /\ UNCHANGED <<run, training_runs, running_runs, training_date, pars, metaVars,
                   all_cses, fetches, outBound, out, todo, extracted, occurring,
                   modelVars, classifyVars>>

ConvertNext == ConvertParams

SpecConvert == ConvertInit /\ [][ConvertNext]_vars

----------------------------------------------------------------------------
(* classify_reactivations (lines 123-247) *)

\* longest merge_cses list
MaxMerge == 2

ClassNames == {"plus", "other", "other-running"}
MergeLists == UNION {[1 .. n -> ClassNames] : n \in 0 .. MaxMerge}

\* the runs of date 1, of which the model was trained on the default runs
ClassifyRuns == {r \in Runs : Parent(r) = 1}
ClassifyParams ==
    {[remove_stim |-> rs, max_n_onsets |-> -1, stimulus_frames |-> 2,
      stimulus_offset_frames |-> 0, analog_training_multiplier |-> 1,
      analog_comparison_multiplier |-> 1, temporal_dependent_priors |-> tdp,
      trace_type |-> "deconvolved",
      provenance |-> Some([comparison_run |-> r, training_date |-> 1,
                           training_other_running_runs |-> DateRuns(1, "running"),
                           training_runs |-> DateRuns(1, "training")])] :
        rs \in BOOLEAN, tdp \in BOOLEAN, r \in ClassifyRuns}

Ones == [f \in 1 .. NFrames |-> 1]

\* a prior vector the caller supplies: none the code computes itself
SuppliedPrior == [f \in 1 .. NFrames |-> 1 + f]

\* the replace_data a caller can hand in: the value of every cell falls from
\* above 1 to below 0 along the frames, and the first frame of the first cell
\* holds a NaN or a 1
ReplaceData ==
    {[c \in Cells |->
         [k \in 1 .. NFrames |-> IF c = 1 /\ k = 1 THEN v ELSE RawValue(k - 1)]] :
        v \in {NaN, 1}}

\* the state train_classifier leaves behind, and the arguments of the call
ClassifyInit ==
    /\ pc = "classify"
    /\ failure = "none"
    /\ run \in ClassifyRuns
    /\ training_runs = Some(DateRuns(1, "training"))
    /\ running_runs = Some(DateRuns(1, "running"))
    /\ training_date = Some(1)
    /\ params \in ClassifyParams
    /\ Val(params.provenance).comparison_run = run
    /\ all_cses = AllCses
    /\ pars = <<>>
    /\ MetaIdle
    /\ fetches = 0
    /\ outBound = FALSE
    /\ out = <<>>
    /\ todo = <<>>
    /\ extracted = <<>>
    /\ occurring = {}
    /\ traces = <<>>
    /\ model \in {Some([classnames |-> S]) : S \in SUBSET ClassNames \ {{}}}
    /\ nan_cells \in {None, Some([c \in Cells |-> FALSE])}
    /\ merge_cses \in {None} \cup {Some(l) : l \in MergeLists}
    /\ replace_temporal_prior \in {None, Some(SuppliedPrior)}
    /\ replace_data \in {None} \cup {Some(d) : d \in ReplaceData}
    /\ activity_args = None
    /\ activity = None
    /\ full_traces = None
    /\ stim_mask = None
    /\ trial_masks = None
    /\ used_priors = None
    /\ results = None
    /\ bundle = None

\* the comparison traces a run can hold: at most one NaN, in the first frame
ComparisonSpots(r) == {{}} \cup {{<<r, c, 0>>} : c \in Cells}

\* line 167: np.any(np.invert(np.isfinite(full_traces)), axis=1)
AnyNonFinite(tr) ==
    [c \in DOMAIN tr |-> \E k \in 1 .. Len(tr[c]) : ~IsFinite(tr[c][k])]

\* line 172 raises KeyError for a class without a prior probability
PriorsRaise(classnames) == \E cs \in classnames : cs \notin ProbabilityKeys

\* lines 159-172
ClassifyStart ==
    /\ pc = "classify"
    /\ failure = "none"
    /\ IF ~IsNone(replace_data)
       THEN full_traces' = replace_data /\ UNCHANGED fetches
       ELSE /\ \E spot \in ComparisonSpots(run) :
                   full_traces' =
                       Some([c \in Cells |->
                                [k \in 1 .. NFrames |->
                                    TraceValue(spot, run, c, k - 1)]])
            /\ fetches' = fetches + 1
    /\ nan_cells' = IF IsNone(nan_cells)
                    THEN Some(AnyNonFinite(Val(full_traces'))) ELSE nan_cells
    /\ IF PriorsRaise(Val(model).classnames)
       THEN Fail("KeyError")
       ELSE pc' = "stim_mask" /\ UNCHANGED failure
    /\ UNCHANGED <<run, training_runs, running_runs, training_date, params, pars, metaVars,
                   all_cses, outBound, out, todo, extracted, occurring,
                   traces, model, merge_cses, replace_temporal_prior,
                   replace_data, activity_args, activity,
                   stim_mask, trial_masks, used_priors, results, bundle>>

\* what t2p.trialmask can return: no frame, or the first frame
TrialMasks == {[f \in 1 .. NFrames |-> FALSE], [f \in 1 .. NFrames |-> f = 1]}

\* a variant that leaves the blank trials in the mask
CombineMasksKeepBlank(all_stim_mask, pav_mask, blank_mask) ==
    [f \in 1 .. NFrames |-> all_stim_mask[f] \/ pav_mask[f]]

\* line 192: (all_stim_mask | pav_mask) & ~blank_mask
CombineMasks(all_stim_mask, pav_mask, blank_mask) ==
    [f \in 1 .. NFrames |->
        (all_stim_mask[f] \/ pav_mask[f]) /\ ~blank_mask[f]]

\* lines 174-194
StimMask ==
    /\ pc = "stim_mask"
    /\ failure = "none"
    /\ IF params.remove_stim /\ IsNone(replace_data)
       THEN \E all_stim_mask \in TrialMasks, pav_mask \in TrialMasks,
               blank_mask \in TrialMasks :
               /\ stim_mask' = Some(CombineMasks(all_stim_mask, pav_mask,
                                                  blank_mask))
               /\ trial_masks' = Some([all |-> all_stim_mask,
                                       pav |-> pav_mask,
                                       blank |-> blank_mask])
               /\ fetches' = fetches + 1
       ELSE UNCHANGED <<stim_mask, trial_masks, fetches>>
    /\ pc' = "priors"
    /\ UNCHANGED <<failure, run, training_runs, running_runs, training_date,
                   params, pars, metaVars, all_cses, outBound, out, todo, extracted, occurring,
                   modelVars, merge_cses, replace_temporal_prior, full_traces,
                   replace_data, activity_args, activity,
                   used_priors, results, bundle>>

\* lines 273-288: the ValueErrors of _activity
ActivityRaises(r, trace_type) ==
    \/ trace_type # "deconvolved"
    \/ UnsupportedKind(RunType(r), {"hungry"})

\* lines 290-353 for a training run: the outliers _activity returns are
\* zeros(ncells) when some pooled activity is finite, and None when none is
ActivityOutliers == {None, Some([c \in Cells |-> FALSE])}

\* aode.temporal_prior: a prior per frame, zero inside the stimulus mask
TemporalPriors(mask) ==
    {v \in {[f \in 1 .. NFrames |-> 0], Ones} :
        IsNone(mask) \/ \A f \in 1 .. NFrames : Val(mask)[f] => v[f] = 0}
    \cup {[f \in 1 .. NFrames |-> IF ~IsNone(mask) /\ Val(mask)[f] THEN 0 ELSE 1]}

\* lines 218-220
UniformPrior(mask) ==
    [f \in 1 .. NFrames |-> IF ~IsNone(mask) /\ Val(mask)[f] THEN 0 ELSE 1]

\* lines 196-222
TemporalPrior ==
    /\ pc = "priors"
    /\ failure = "none"
    /\ LET priors == Val(model).classnames
       IN  IF params.temporal_dependent_priors /\ IsNone(replace_temporal_prior)
           THEN IF ActivityRaises(run, params.trace_type)
                THEN Fail("ValueError") /\ UNCHANGED used_priors
                ELSE \E outliers \in ActivityOutliers :
                        IF IsNone(outliers)
                        THEN Fail("TypeError") /\ UNCHANGED used_priors
                        ELSE \E tpriorvec \in TemporalPriors(stim_mask) :
                                /\ used_priors' = Some([classes |-> priors,
                                                        tprior |-> tpriorvec])
                                /\ pc' = "compare"
                                /\ UNCHANGED failure
           ELSE IF params.temporal_dependent_priors
           THEN /\ used_priors' = Some([classes |-> priors,
                                        tprior |-> Val(replace_temporal_prior)])
                /\ pc' = "compare"
                /\ UNCHANGED failure
           ELSE /\ used_priors' = Some([classes |-> priors,
                                        tprior |-> UniformPrior(stim_mask)])
                /\ pc' = "compare"
                /\ UNCHANGED failure
    /\ UNCHANGED <<run, training_runs, running_runs, training_date, params, pars, metaVars,
                   all_cses, fetches, outBound, out, todo, extracted, occurring,
                   modelVars, merge_cses, replace_temporal_prior, full_traces,
                   replace_data, activity_args, activity,
                   stim_mask, trial_masks, results, bundle>>

\* AODE.compare: a series per trained class, aligned to the frames; here the
\* posterior of a frame is 1 for at most one class and 0 for the others, with
\* one winner in the first frame and one in the frames after it
CompareResults(classnames) ==
    {[cs \in classnames |->
         [f \in 1 .. NFrames |-> IF (IF f = 1 THEN a ELSE b) = cs THEN 1 ELSE 0]] :
        a \in classnames \cup {"none"}, b \in classnames \cup {"none"}}

\* a variant of ClipRebinds in which the clipped values are written into the
\* array the name held (np.clip(..., out=full_traces))
ClipInPlace(held, clipped) == clipped

\* lines 224-225: the product and np.clip each build a new array and the name
\* full_traces is rebound to it, so the array the name held before (the caller's
\* replace_data, line 163) keeps its values
ClipRebinds(held, clipped) == held

\* lines 224-231
Compare ==
    /\ pc = "compare"
    /\ failure = "none"
    /\ full_traces' = Some([c \in Cells |->
                              [k \in 1 .. NFrames |->
                                  ClipUnit(Val(full_traces)[c][k],
                                           params.analog_comparison_multiplier)]])
    /\ replace_data' = IF IsNone(replace_data) THEN None
                       ELSE Some(ClipRebinds(Val(replace_data), Val(full_traces')))
    /\ results' \in {Some(r) : r \in CompareResults(Val(model).classnames)}
    /\ pc' = "merge"
    /\ UNCHANGED <<failure, run, training_runs, running_runs, training_date,
                   params, pars, metaVars, all_cses, fetches, outBound, out, todo, extracted,
                   occurring, modelVars, merge_cses, replace_temporal_prior,
                   activity_args, activity,
                   stim_mask, trial_masks, used_priors, bundle>>

\* results.pop(key)
Pop(res, key) == [cs \in DOMAIN res \ {key} |-> res[cs]]

\* a variant of MergeStep that overwrites the first class instead of adding
MergeStepOverwrite(acc, merge1, merge2) ==
    IF merge1 \notin DOMAIN acc.res \/ merge2 \notin DOMAIN acc.res
    THEN [acc EXCEPT !.err = "KeyError"]
    ELSE [acc EXCEPT !.res = Pop([acc.res EXCEPT ![merge1] = acc.res[merge2]],
                                 merge2)]

\* lines 237-238: results[merge1] += results[merge2]; results.pop(merge2)
MergeStep(acc, merge1, merge2) ==
    IF merge1 \notin DOMAIN acc.res \/ merge2 \notin DOMAIN acc.res
    THEN [acc EXCEPT !.err = "KeyError"]
    ELSE [acc EXCEPT !.res =
             Pop([acc.res EXCEPT ![merge1] =
                     [f \in 1 .. Len(@) |-> @[f] + acc.res[merge2][f]]],
                 merge2)]

\* lines 236-238
RECURSIVE MergeLoop(_, _, _)
MergeLoop(acc, merge1, rest) ==
    IF rest = <<>> \/ acc.err # "none" THEN acc
    ELSE MergeLoop(MergeStep(acc, merge1, Head(rest)), merge1, Tail(rest))

\* a variant of MergeResults that keeps the listed classes only
MergeResultsListedOnly(res, merge_list) ==
    LET acc == [res |-> [cs \in DOMAIN res \cap SeqRange(merge_list) |-> res[cs]],
                err |-> "none"]
    IN  IF Len(merge_list) > 0
        THEN MergeLoop(acc, merge_list[1], Tail(merge_list))
        ELSE acc

\* lines 233-238
MergeResults(res, merge_list) ==
    IF Len(merge_list) > 0
    THEN MergeLoop([res |-> res, err |-> "none"], merge_list[1], Tail(merge_list))
    ELSE [res |-> res, err |-> "none"]

\* lines 159-160: the list the local name merge_cses holds
MergeCses(arg) == IF IsNone(arg) THEN <<>> ELSE Val(arg)

\* lines 233-247
MergeReturn ==
    /\ pc = "merge"
    /\ failure = "none"
    /\ LET merged == MergeResults(Val(results), MergeCses(merge_cses))
       IN  IF merged.err # "none"
           THEN Fail(merged.err) /\ UNCHANGED bundle
           ELSE /\ bundle' = Some([parameters |-> params,
                                   results |-> merged.res,
                                   priors |-> Val(used_priors),
                                   cell_mask |-> [c \in Cells |-> ~Val(nan_cells)[c]]])
                /\ pc' = "returned"
                /\ UNCHANGED failure
    /\ UNCHANGED <<run, training_runs, running_runs, training_date, params, pars, metaVars,
                   all_cses, fetches, outBound, out, todo, extracted, occurring,
                   modelVars, merge_cses, replace_temporal_prior, full_traces,
                   replace_data, activity_args, activity,
                   stim_mask, trial_masks, used_priors, results>>

ClassifyNext ==
    \/ ClassifyStart
    \/ StimMask
    \/ TemporalPrior
    \/ Compare
    \/ MergeReturn

SpecClassify == ClassifyInit /\ [][ClassifyNext]_vars

----------------------------------------------------------------------------
(* train_classifier, then classify_reactivations on the same target run *)

\* train_classifier(run) with its default runs and date
RoundTripInit ==
    /\ Init
    /\ run = 1
    /\ IsNone(training_runs)
    /\ IsNone(running_runs)
    /\ IsNone(training_date)
    /\ params.max_n_onsets = -1
    /\ params.stimulus_offset_frames = 0

\* the call classify_reactivations(run, model, params, nan_cells, merge_cses,
\* replace_temporal_prior=...) on what train_classifier returned
ClassifyCall ==
    /\ pc = "trained"
    /\ failure = "none"
    /\ pc' = "classify"
    /\ nan_cells' = nan_cells
    /\ merge_cses' \in {None} \cup {Some(l) : l \in {m \in MergeLists : Len(m) <= 1}}
    /\ replace_temporal_prior' \in {None, Some(SuppliedPrior)}
    /\ replace_data' \in {None} \cup {Some(d) : d \in ReplaceData}
    /\ UNCHANGED <<failure, run, training_runs, running_runs, training_date,
                   params, pars, metaVars, all_cses, fetches, outBound, out, todo, extracted,
                   occurring, traces, model, full_traces, stim_mask, trial_masks,
                   activity_args, activity,
                   used_priors, results, bundle>>

RoundTripNext ==
    \/ Next
    \/ ClassifyCall
    \/ ClassifyNext

SpecRoundTrip == RoundTripInit /\ [][RoundTripNext]_vars

----------------------------------------------------------------------------
(* The metadata catalog (flow/metadata/metadata.py and parser.py): the      *)
(* metadata file, the cache parser._metadata, and the calls add_mouse,      *)
(* add_date, add_run and meta_dict.  parser.validate checks a schema that   *)
(* is not part of the sources; the dictionaries built here pass it.         *)

\* metadata calls looked at in one behaviour
MaxCalls == 2

\* the order of the mouse names under sorted()
MouseRank(name) ==
    CASE name = "A" -> 1
      [] name = "B" -> 2
      [] name = "C" -> 3

\* the dictionaries of the metadata file; a key that is absent holds None
RunEntry(run_id, run_type, tags) ==
    [run |-> run_id, run_type |-> run_type, tags |-> tags]

DateEntry(date, date_runs, tags, photometry) ==
    [date |-> date, runs |-> date_runs, tags |-> tags,
     photometry |-> photometry]

MouseEntry(name, dates, tags) ==
    [name |-> name, dates |-> dates, tags |-> tags]

EmptyFile == [mice |-> <<>>]

\* a metadata file as parser.save writes it: mice, dates and runs sorted
StoredFile ==
    [mice |->
        <<MouseEntry("A",
              <<DateEntry(1,
                    <<RunEntry(1, "training", Some(<<"hungry">>)),
                      RunEntry(2, "spontaneous", None)>>,
                    Some(<<"d">>), None),
                DateEntry(2, <<RunEntry(1, "training", None)>>,
                    None, Some(<<"p">>))>>,
              Some(<<"m">>)),
          MouseEntry("B",
              <<DateEntry(1, <<RunEntry(1, "training", None)>>, None, None)>>,
              None)>>]

InitialFiles == {EmptyFile, StoredFile}

\* the arguments the calls are made with
MiceGiven == {"A", "C"}
DatesGiven == {1, 3}
RunsGiven == {1, 3}
RunTypesGiven == {"running"}
TagsGiven == {None, Some(<<"t">>)}
PhotometryGiven == {None, Some(<<"q">>)}

\* the call as history keeps it; 0 and "" stand for an argument the call
\* does not have
Called(op, mouse, date, run_id, run_type, tags, photometry, overwrite, update, raised) ==
    [op |-> op, mouse |-> mouse, date |-> date, run |-> run_id,
     run_type |-> run_type, tags |-> tags, photometry |-> photometry,
     overwrite |-> overwrite, update |-> update, raised |-> raised]

NoCall == Called("none", "", 0, 0, "", None, None, FALSE, FALSE, "none")

\* the run_types runs() is called with
RunTypeListsGiven == {None, Some(<<"running">>), Some(<<"training">>)}

\* runs() has not been called
NoListing == [run_types |-> None, returned |-> None]

\* parser.py lines 47-52: the dictionary meta_dict works from
Loaded(cached, stored) == IF IsNone(cached) THEN stored ELSE Val(cached)

\* a variant in which meta_dict hands out the cached dictionary itself
SharedSource(source, mutated_copy) == mutated_copy

\* parser.py line 52, deepcopy: what the cache holds after the caller has
\* changed the dictionary it was given
DeepcopySource(source, mutated_copy) == source

\* a variant of Remove that leaves the list as it is
RemoveNothing(seq, x) == seq

\* list.remove
RECURSIVE Remove(_, _)
Remove(seq, x) ==
    IF seq = <<>> THEN <<>>
    ELSE IF Head(seq) = x THEN Tail(seq)
    ELSE <<Head(seq)>> \o Remove(Tail(seq), x)

\* sorted(seq, key=...): key is a function over the elements
RECURSIVE InsertByKey(_, _, _)
InsertByKey(x, s, key) ==
    IF s = <<>> THEN <<x>>
    ELSE IF key[x] < key[Head(s)] THEN <<x>> \o s
    ELSE <<Head(s)>> \o InsertByKey(x, Tail(s), key)

RECURSIVE SortByKey(_, _)
SortByKey(s, key) ==
    IF s = <<>> THEN <<>>
    ELSE InsertByKey(s[Len(s)], SortByKey(SubSeq(s, 1, Len(s) - 1), key), key)

\* parser.py lines 96-100
SortedRuns(date_runs) ==
    SortByKey(date_runs, [r \in SeqRange(date_runs) |-> r.run])

SortedDates(dates) ==
    LET inner == [i \in 1 .. Len(dates) |->
                     [dates[i] EXCEPT !.runs = SortedRuns(@)]]
    IN  SortByKey(inner, [d \in SeqRange(inner) |-> d.date])

SortedMice(mice) ==
    LET inner == [i \in 1 .. Len(mice) |->
                     [mice[i] EXCEPT !.dates = SortedDates(@)]]
    IN  SortByKey(inner, [m \in SeqRange(inner) |-> MouseRank(m.name)])

\* parser.py lines 83-106: what the file holds after save(metadata)
Save(metadata) == [mice |-> SortedMice(metadata.mice)]

\* a variant that never refuses
RefusesNever(overwrite, update) == FALSE

\* metadata.py lines 164, 225, 298
Refuses(overwrite, update) == ~overwrite /\ ~update

\* a variant that forgets the stored list
NoneStored(stored) == <<>>

\* existing.get('tags', [])
Stored(stored) == IF IsNone(stored) THEN <<>> ELSE Val(stored)

\* metadata.py lines 173-177: the key after the passed list is put in
Extended(held, given) ==
    IF IsNone(given) THEN held
    ELSE IF IsNone(held) THEN given
    ELSE Some(Val(held) \o Val(given))

\* metadata.py lines 159-179; metadata is the working copy
AddMouse(metadata, mouse, tags, overwrite, update) ==
    LET existing_mouse == SelectSeq(metadata.mice, LAMBDA m : m.name = mouse)
        found == Len(existing_mouse) = 1
        dates == IF found /\ update THEN existing_mouse[1].dates ELSE <<>>
        held == IF found /\ update THEN Some(Stored(existing_mouse[1].tags))
                ELSE None
        others == IF found THEN Remove(metadata.mice, existing_mouse[1])
                  ELSE metadata.mice
    IN  IF Len(existing_mouse) > 1
        THEN [raised |-> "AssertionError", metadata |-> metadata]
        ELSE IF found /\ Refuses(overwrite, update)
        THEN [raised |-> "AlreadyPresentError", metadata |-> metadata]
        ELSE [raised |-> "none",
              metadata |->
                  [mice |-> Append(others,
                                   MouseEntry(mouse, dates,
                                              Extended(held, tags)))]]

\* metadata.py lines 211-246
AddDate(metadata, mouse, date, tags, photometry, overwrite, update) ==
    LET existing_mouse == SelectSeq(metadata.mice, LAMBDA m : m.name = mouse)
    IN  IF Len(existing_mouse) = 0
        THEN [raised |-> "MissingParentError", metadata |-> metadata]
        ELSE IF Len(existing_mouse) # 1
        THEN [raised |-> "AssertionError", metadata |-> metadata]
        ELSE
        LET mouse_dict == existing_mouse[1]
            others == Remove(metadata.mice, mouse_dict)
            existing_date ==
                SelectSeq(mouse_dict.dates, LAMBDA d : d.date = date)
            found == Len(existing_date) = 1
            keep == found /\ update
            date_runs == IF keep THEN existing_date[1].runs ELSE <<>>
            held == IF keep THEN Some(Stored(existing_date[1].tags)) ELSE None
            heldp == IF keep THEN Some(Stored(existing_date[1].photometry))
                     ELSE None
            dates == IF found THEN Remove(mouse_dict.dates, existing_date[1])
                     ELSE mouse_dict.dates
            date_dict == DateEntry(date, date_runs, Extended(held, tags),
                                   Extended(heldp, photometry))
        IN  IF Len(existing_date) > 1
            THEN [raised |-> "AssertionError", metadata |-> [mice |-> others]]
            ELSE IF found /\ Refuses(overwrite, update)
            THEN [raised |-> "AlreadyPresentError",
                  metadata |-> [mice |-> others]]
            ELSE [raised |-> "none",
                  metadata |->
                      [mice |-> Append(others,
                                       [mouse_dict EXCEPT !.dates =
                                           Append(dates, date_dict)])]]

\* metadata.py lines 278-314
AddRun(metadata, mouse, date, run_id, run_type, tags, overwrite, update) ==
    LET existing_mouse == SelectSeq(metadata.mice, LAMBDA m : m.name = mouse)
    IN  IF Len(existing_mouse) = 0
        THEN [raised |-> "MissingParentError", metadata |-> metadata]
        ELSE IF Len(existing_mouse) # 1
        THEN [raised |-> "AssertionError", metadata |-> metadata]
        ELSE
        LET mouse_dict == existing_mouse[1]
            others == Remove(metadata.mice, mouse_dict)
            existing_date ==
                SelectSeq(mouse_dict.dates, LAMBDA d : d.date = date)
        IN  IF Len(existing_date) = 0
            THEN [raised |-> "MissingParentError",
                  metadata |-> [mice |-> others]]
            ELSE IF Len(existing_date) # 1
            THEN [raised |-> "AssertionError", metadata |-> [mice |-> others]]
            ELSE
            LET date_dict == existing_date[1]
                dates == Remove(mouse_dict.dates, date_dict)
                existing_run ==
                    SelectSeq(date_dict.runs, LAMBDA r : r.run = run_id)
                found == Len(existing_run) = 1
                held == IF found /\ update
                        THEN Some(Stored(existing_run[1].tags)) ELSE None
                date_runs == IF found
                             THEN Remove(date_dict.runs, existing_run[1])
                             ELSE date_dict.runs
                run_dict == RunEntry(run_id, run_type, Extended(held, tags))
            IN  IF Len(existing_run) > 1
                THEN [raised |-> "AssertionError",
                      metadata |-> [mice |-> others]]
                ELSE IF found /\ Refuses(overwrite, update)
                THEN [raised |-> "AlreadyPresentError",
                      metadata |-> [mice |-> others]]
                ELSE [raised |-> "none",
                      metadata |->
                          [mice |->
                              Append(others,
                                     [mouse_dict EXCEPT !.dates =
                                         Append(dates,
                                                [date_dict EXCEPT !.runs =
                                                    Append(date_runs,
                                                           run_dict)])])]]

MetaInit ==
    /\ pc = "metadata"
    /\ failure = "none"
    /\ run = 1
    /\ training_runs = None
    /\ running_runs = None
    /\ training_date = None
    /\ params = <<>>
    /\ pars = <<>>
    /\ all_cses = <<>>
    /\ fetches = 0
    /\ outBound = FALSE
    /\ out = <<>>
    /\ todo = <<>>
    /\ extracted = <<>>
    /\ occurring = {}
    /\ traces = <<>>
    /\ model = None
    /\ nan_cells = None
    /\ merge_cses = None
    /\ replace_temporal_prior = None
    /\ replace_data = None
    /\ full_traces = None
    /\ stim_mask = None
    /\ trial_masks = None
    /\ used_priors = None
    /\ results = None
    /\ bundle = None
    /\ activity_args = None
    /\ activity = None
    /\ file \in InitialFiles
    /\ metadata_cache \in {None, Some(file)}
    /\ call = NoCall
    /\ before = [file |-> file, cache |-> metadata_cache]
    /\ ncalls = 0
    /\ last_added = NoCall
    /\ listed = NoListing

\* a variant of ClearCache that leaves the cache as the call loaded it
CacheKept(cached) == cached

\* metadata.py lines 183, 251, 319: parser._metadata = None
ClearCache(cached) == None

\* the end of add_mouse, add_date and add_run: parser.save, parser.meta_dict
\* and the clearing of the cache when nothing was raised; attempt is what the
\* lines before made of the working copy
Conclude(made, attempt) ==
    /\ before' = [file |-> file, cache |-> metadata_cache]
    /\ ncalls' = ncalls + 1
    /\ call' = [made EXCEPT !.raised = attempt.raised]
    /\ IF attempt.raised = "none"
       THEN /\ file' = Save(attempt.metadata)
            /\ metadata_cache' = ClearCache(Some(Loaded(metadata_cache, file)))
       ELSE /\ file' = file
            /\ metadata_cache' =
                   Some(DeepcopySource(Loaded(metadata_cache, file),
                                       attempt.metadata))
    /\ last_added' = IF attempt.raised # "none" THEN last_added
                     ELSE IF made.op = "add_run" THEN made
                     ELSE NoCall
    /\ UNCHANGED <<listed, trainVars, modelVars, classifyVars>>

\* lines 152-153, 205-206, 273-274: raised before the metadata is looked at
RejectFlags(made) ==
    /\ before' = [file |-> file, cache |-> metadata_cache]
    /\ ncalls' = ncalls + 1
    /\ call' = [made EXCEPT !.raised = "ValueError"]
    /\ UNCHANGED <<file, metadata_cache, last_added, listed, trainVars,
                   modelVars, classifyVars>>

\* metadata.py lines 139-183
AddMouseCall ==
    /\ pc = "metadata"
    /\ ncalls < MaxCalls
    /\ \E mouse \in MiceGiven, tags \in TagsGiven, overwrite \in BOOLEAN,
          update \in BOOLEAN :
          LET made == Called("add_mouse", mouse, 0, 0, "", tags, None,
                             overwrite, update, "none")
          IN  IF overwrite /\ update
              THEN RejectFlags(made)
              ELSE Conclude(made,
                            AddMouse(Loaded(metadata_cache, file), mouse, tags,
                                     overwrite, update))

\* metadata.py lines 186-251
AddDateCall ==
    /\ pc = "metadata"
    /\ ncalls < MaxCalls
    /\ \E mouse \in MiceGiven, date \in DatesGiven, tags \in TagsGiven,
          photometry \in PhotometryGiven, overwrite \in BOOLEAN,
          update \in BOOLEAN :
          LET made == Called("add_date", mouse, date, 0, "", tags, photometry,
                             overwrite, update, "none")
          IN  IF overwrite /\ update
              THEN RejectFlags(made)
              ELSE Conclude(made,
                            AddDate(Loaded(metadata_cache, file), mouse, date,
                                    tags, photometry, overwrite, update))

\* metadata.py lines 254-319
AddRunCall ==
    /\ pc = "metadata"
    /\ ncalls < MaxCalls
    /\ \E mouse \in MiceGiven, date \in DatesGiven, run_id \in RunsGiven,
          run_type \in RunTypesGiven, tags \in TagsGiven,
          overwrite \in BOOLEAN, update \in BOOLEAN :
          LET made == Called("add_run", mouse, date, run_id, run_type, tags,
                             None, overwrite, update, "none")
          IN  IF overwrite /\ update
              THEN RejectFlags(made)
              ELSE Conclude(made,
                            AddRun(Loaded(metadata_cache, file), mouse, date,
                                   run_id, run_type, tags, overwrite, update))

\* parser.py lines 45-52
MetaDictCall ==
    /\ pc = "metadata"
    /\ ncalls < MaxCalls
    /\ \E reload_ \in BOOLEAN :
          metadata_cache' = IF reload_ \/ IsNone(metadata_cache)
                            THEN Some(file) ELSE metadata_cache
    /\ before' = [file |-> file, cache |-> metadata_cache]
    /\ ncalls' = ncalls + 1
    /\ call' = Called("meta_dict", "", 0, 0, "", None, None, FALSE, FALSE,
                      "none")
    /\ UNCHANGED <<file, last_added, listed, trainVars, modelVars, classifyVars>>

\* parser.py line 55: the keyword arguments meta_df() takes
MetaDfTakes == {}

\* metadata.py line 106: the keyword arguments meta() calls meta_df with
MetaDfGiven == {"reload_"}

\* a call with a keyword argument the function does not take raises TypeError
CallRaises(given, takes) ==
    IF given \subseteq takes THEN "none" ELSE "TypeError"

\* metadata.py lines 366-386: runs() calls meta() (line 384), whose first
\* statement (line 106) calls parser.meta_df(reload_=reload_); the TypeError of
\* that call ends meta() and runs() before the metadata is read, so nothing
\* is returned and the cache is not loaded
RunsCall ==
    /\ pc = "metadata"
    /\ ncalls < MaxCalls
    /\ CallRaises(MetaDfGiven, MetaDfTakes) = "TypeError"
    /\ \E mouse \in MiceGiven, date \in DatesGiven,
          run_types \in RunTypeListsGiven, tags \in TagsGiven :
          /\ call' = Called("runs", mouse, date, 0, "", tags, None, FALSE,
                            FALSE, CallRaises(MetaDfGiven, MetaDfTakes))
          /\ listed' = [run_types |-> run_types, returned |-> None]
    /\ before' = [file |-> file, cache |-> metadata_cache]
    /\ ncalls' = ncalls + 1
    /\ UNCHANGED <<file, metadata_cache, last_added, trainVars, modelVars,
                   classifyVars>>

MetaNext ==
    AddMouseCall \/ AddDateCall \/ AddRunCall \/ MetaDictCall \/ RunsCall

SpecMeta == MetaInit /\ [][MetaNext]_vars

----------------------------------------------------------------------------
(* Claims about the Windowing Extractor and the Training Orchestrator *)

Windows == UNION {SeqRange(out[cs]) : cs \in DOMAIN out}

GetTracesReturned == pc \in {"clip", "nan_cells", "trained"}

\* the date and the runs have been resolved (line 69 is behind)
Resolved == pc \notin {"start", "runs"}

\* C1: every window of every class bucket that _get_traces returns has
\* exactly length_fr frames
C1_EveryWindowHasLengthFr ==
    GetTracesReturned =>
        \A cs \in DOMAIN out : \A i \in 1 .. Len(out[cs]) :
            out[cs][i].n = params.stimulus_frames

\* C2: without the reuse override (remove_stim false) no stimulus window of a
\* class bucket comes from the target run
C2_NoTargetStimulusWithoutReuse ==
    \A cs \in DOMAIN out : \A i \in 1 .. Len(out[cs]) :
        (out[cs][i].via = "stim" /\ out[cs][i].run = run) => params.remove_stim

\* _get_traces returned, the target run was a training run and was skipped,
\* and another training run gave a stimulus window
C2_Witness ==
    /\ GetTracesReturned
    /\ ~params.remove_stim
    /\ run \in SeqRange(Val(training_runs))
    /\ \E w \in Windows : w.via = "stim" /\ w.run # run

\* C3: with the target run among running_runs, _get_traces completes and
\* 'other-running' holds the windows of the running-run pass only
C3_TargetInRunningRunsCompletes ==
    (/\ Resolved
     /\ pc # "params"
     /\ pc # "get_traces"
     /\ run \in SeqRange(Val(running_runs))
     /\ failure # "none" \/ GetTracesReturned)
    => /\ GetTracesReturned
       /\ "other-running" \in DOMAIN out
       /\ \A i \in 1 .. Len(out["other-running"]) :
              out["other-running"][i].via = "run-onsets"

\* s is t with some elements left out
RECURSIVE IsSubSeq(_, _)
IsSubSeq(s, t) ==
    IF s = <<>> THEN TRUE
    ELSE IF t = <<>> THEN FALSE
    ELSE IF Head(s) = Head(t) THEN IsSubSeq(Tail(s), Tail(t))
    ELSE IsSubSeq(s, Tail(t))

\* C4: once lines 463-472 have run with max_n_onsets > 0, every class without
\* 'other' in its name holds at most max_n_onsets of the windows extracted for
\* it and every other class holds all of its windows; with max_n_onsets <= 0
\* every class holds all of its windows
C4_SubsampledToCap ==
    (/\ outBound
     /\ pc = "arrays" \/ (pc = "subsample" /\ failure # "none"))
    => /\ pc = "arrays"
       /\ DOMAIN out = DOMAIN extracted
       /\ \A cs \in DOMAIN out :
              IF params.max_n_onsets > 0 /\ ~HasOther(cs)
              THEN /\ Len(out[cs]) <= params.max_n_onsets
                   /\ IsSubSeq(out[cs], extracted[cs])
              ELSE out[cs] = extracted[cs]

\* C5 as stated: the class every onset class of a training run is remapped to
\* is a key of the returned bucket
C5_EveryRemappedClassIsKey ==
    GetTracesReturned =>
        \A p \in occurring : all_cses[p[2]] \in DOMAIN out

\* C5 as amended: the class every onset class of a training run whose
\* stimulus windows are taken (line 423) is remapped to is a key of the
\* returned bucket
C5_EveryTakenRemappedClassIsKey ==
    GetTracesReturned =>
        \A p \in occurring :
            (params.remove_stim \/ p[1] # run) => all_cses[p[2]] \in DOMAIN out

\* a returned bucket holds a class that has an onset class in a training run
\* and no window
C5_Witness ==
    /\ GetTracesReturned
    /\ \E p \in occurring :
           /\ params.remove_stim \/ p[1] # run
           /\ all_cses[p[2]] \in DOMAIN out
           /\ out[all_cses[p[2]]] = <<>>

\* a supplied training date, training run or running run of another date
\* than the target run's
DateMismatch == ~IsNone(training_date) /\ Val(training_date) # Parent(run)
RunMismatch ==
    \/ ~IsNone(training_runs) /\ \E r \in SeqRange(Val(training_runs)) : Parent(r) # Parent(run)
    \/ ~IsNone(running_runs) /\ \E r \in SeqRange(Val(running_runs)) : Parent(r) # Parent(run)

C7_OwnershipFailsBeforeAnyFetch ==
    failure \in {"NotImplementedError", "AssertionError"} =>
        /\ fetches = 0
        /\ ~outBound
        /\ out = <<>>

\* the call failed over a supplied running run of another date
C7_Witness ==
    /\ failure = "AssertionError"
    /\ ~IsNone(running_runs)
    /\ ~RunsOwned(Val(running_runs), Parent(run))

----------------------------------------------------------------------------
(* _nan_cells *)

Returned == pc = "returned"

\* the cells of a bucket with a non-finite value in some frame of some window
NonFiniteCells ==
    {c \in Cells : \E cs \in DOMAIN traces : \E i \in 1 .. Len(traces[cs]) :
        \E k \in DOMAIN traces[cs][i][c] : traces[cs][i][c][k] = NaN}

\* C8: for every Class Bucket, also one whose classes all have zero windows,
\* _nan_cells returns a mask with one entry per cell, and the entry of a cell is
\* true exactly when the cell has a non-finite value in some window.
C8_MaskHasOneEntryPerCell ==
    /\ (pc = "nan_cells" => failure = "none")
    /\ (pc = "trained" =>
           /\ DOMAIN Val(nan_cells) = Cells
           /\ \A c \in Cells : Val(nan_cells)[c] <=> c \in NonFiniteCells)

----------------------------------------------------------------------------
(* classify_reactivations: merging *)

\* the per-frame sum of the compare results of the classes of a list
RECURSIVE SeriesSum(_, _)
SeriesSum(res, l) ==
    IF l = <<>> THEN [f \in 1 .. NFrames |-> 0]
    ELSE [f \in 1 .. NFrames |-> res[Head(l)][f] + SeriesSum(res, Tail(l))[f]]

NoDuplicates(l) == \A i, j \in 1 .. Len(l) : l[i] = l[j] => i = j

\* a non-empty merge_cses list of trained class names, after compare
MergeRequested ==
    /\ pc \in {"merge", "returned"}
    /\ MergeCses(merge_cses) # <<>>
    /\ SeqRange(MergeCses(merge_cses)) \subseteq Val(model).classnames

\* the returned results hold the sum in the first listed class, none of the
\* later listed classes, and the unlisted classes as compare gave them
MergedAsListed ==
    LET l == MergeCses(merge_cses)
        res == Val(bundle).results
        cmp == Val(results)
    IN  /\ l[1] \in DOMAIN res
        /\ res[l[1]] = SeriesSum(cmp, l)
        /\ \A cs \in SeqRange(Tail(l)) : cs \notin DOMAIN res
        /\ \A cs \in DOMAIN cmp \ SeqRange(l) :
               cs \in DOMAIN res /\ res[cs] = cmp[cs]

\* C9 as stated: for every non-empty merge_cses list of trained class names
\* the call returns results with the sum of the listed classes in the first
\* listed class, without the later listed classes, the unlisted unchanged.
C9_MergeSumsIntoFirst ==
    MergeRequested =>
        /\ failure = "none"
        /\ Returned => MergedAsListed

\* C9: for every non-empty merge_cses list of distinct trained class names
\* the call returns results with the sum of the listed classes in the first
\* listed class, without the later listed classes, the unlisted unchanged.
C9_MergeOfDistinctSumsIntoFirst ==
    (MergeRequested /\ NoDuplicates(MergeCses(merge_cses))) =>
        /\ failure = "none"
        /\ Returned => MergedAsListed

\* a returned merge of two distinct classes of which one has a non-zero series
C9_Witness ==
    /\ Returned
    /\ MergeRequested
    /\ Len(Val(merge_cses)) = 2
    /\ NoDuplicates(Val(merge_cses))
    /\ \E f \in 1 .. NFrames : Val(results)[Val(merge_cses)[2]][f] = 1
    /\ Val(model).classnames \ SeqRange(Val(merge_cses)) # {}

----------------------------------------------------------------------------
(* train_classifier then classify_reactivations *)

\* C10: train_classifier and then classify_reactivations on the same target
\* run with merge_cses=None returns results whose class names are exactly the
\* class names of the trained model.
C10_RoundTripKeepsClassNames ==
    (Returned /\ IsNone(merge_cses)) =>
        DOMAIN Val(bundle).results = Val(model).classnames

\* a round trip on run 1 that returned, with a model of more than one class
C10_Witness ==
    /\ Returned
    /\ IsNone(merge_cses)
    /\ Val(params.provenance).comparison_run = run
    /\ Cardinality(Val(model).classnames) > 1
    /\ DOMAIN traces = Val(model).classnames

----------------------------------------------------------------------------
(* clipping of the traces handed to the model *)

\* x brought into [0, 1]
Clamp(x) == IF x < 0 THEN 0 ELSE IF x > 1 THEN 1 ELSE x

\* model.compare has been handed full_traces
Compared == pc \in {"merge", "returned"}

\* the comparison data before line 224
ComparisonRaw(c, k) ==
    IF IsNone(replace_data) THEN RawValue(k - 1) ELSE Val(replace_data)[c][k]

----------------------------------------------------------------------------
(* _activity *)

ActivityEnded == pc = "activity_done" \/ (pc = "activity" /\ failure # "none")
ActivityReturned == pc = "activity_done"

\* the run is spontaneous with a 'sated' or 'hungry' tag, or a training run
KindSupported ==
    LET a == Val(activity_args)
    IN  \/ a.run_type = "spontaneous" /\ a.tags \cap {"sated", "hungry"} # {}
        \/ a.run_type = "training"

\* C12 as stated: for a run that is neither spontaneous with 'sated' or
\* 'hungry' nor training, _activity fails with UnsupportedRunKindError before
\* it reads a trace.
C12_FailsWithUnsupportedRunKind ==
    (ActivityEnded /\ ~KindSupported) =>
        failure = "UnsupportedRunKindError" /\ fetches = 0

\* C12 as amended: for a run that is neither spontaneous with 'sated' or
\* 'hungry' nor training, _activity fails with ValueError before it reads a
\* trace.
C12_FailsWithValueError ==
    (ActivityEnded /\ ~KindSupported) =>
        failure = "ValueError" /\ fetches = 0

\* _activity failed for a running run asked for deconvolved traces
C12_Witness ==
    /\ ActivityEnded
    /\ Val(activity_args).run_type = "running"
    /\ Val(activity_args).trace_type = "deconvolved"
    /\ failure = "ValueError"

\* no pooled value is finite
NothingPooled ==
    \A i \in 1 .. Len(Val(activity).pooled) : Val(activity).pooled[i].value = NaN

\* C13: when no valid pooled activity exists, _activity returns the baseline
\* 0.01, the variance 0.08 * baseline_sigma and a boolean outlier mask with one
\* entry per cell.
C13_FallbackWithOutlierMask ==
    (ActivityReturned /\ NothingPooled) =>
        /\ Val(activity).baseline = 1
        /\ Val(activity).variance =
               [kind |-> "fixed", value |-> 8 * Val(activity_args).baseline_sigma]
        /\ ~IsNone(Val(activity).outliers)
        /\ DOMAIN Val(Val(activity).outliers) = Cells

\* C14: for a training run with n >= 1 pooled finite values, baseline and
\* variance are taken of the sorted values without the floor(0.02 n) smallest
\* and the floor(0.02 n) largest, n - 2 floor(0.02 n) values in all, and the
\* baseline is their median times baseline_activity.
C14_TrimmedSetIsUsed ==
    (/\ ActivityReturned
     /\ Val(activity_args).run_type = "training"
     /\ Len(Val(activity).pooled) >= 1)
    => LET n == Len(Val(activity).pooled)
           t == (2 * n) \div 100
           used == Val(activity).used
       IN  /\ Len(used) = n - 2 * t
           /\ used = SubSeq(SortByValue(Val(activity).pooled), t + 1, n - t)
           /\ Val(activity).baseline =
                  Median(used) * Val(activity_args).baseline_activity

\* frame f of the run lies in the 4 seconds after the run's onset
AfterOnset(f) ==
    LET d == Val(activity).data
    IN  /\ ~IsNone(d.onset)
        /\ Val(d.onset).frame <= f
        /\ f < Val(d.onset).frame + (4 * d.framerate) \div 10

TrainingReturned ==
    ActivityReturned /\ Val(activity_args).run_type = "training"

\* C15 as stated: for a training run no frame of the 4 seconds after a
\* stimulus onset of any class of the run is among the pooled activity.
C15_NoFrameAfterAnyOnsetPooled ==
    TrainingReturned =>
        \A i \in 1 .. Len(Val(activity).pooled) :
            ~AfterOnset(Val(activity).pooled[i].frame)

\* C15 as amended: for a training run no frame of the 4 seconds after an
\* onset of a plus, neutral, minus or pavlovian class is among the pooled
\* activity.
C15_NoFrameAfterListedOnsetPooled ==
    TrainingReturned =>
        \A i \in 1 .. Len(Val(activity).pooled) :
            AfterOnset(Val(activity).pooled[i].frame) =>
                Val(Val(activity).data.onset).cs
                    \notin {"plus", "neutral", "minus", "pavlovian"}

\* a training run with a plus onset whose frames before and after the blanked
\* ones are pooled
C15_Witness ==
    /\ TrainingReturned
    /\ ~IsNone(Val(activity).data.onset)
    /\ Val(Val(activity).data.onset) = [cs |-> "plus", frame |-> 1]
    /\ \E i \in 1 .. Len(Val(activity).pooled) :
           Val(activity).pooled[i].frame = 0
    /\ \E i \in 1 .. Len(Val(activity).pooled) :
           Val(activity).pooled[i].frame = 3

----------------------------------------------------------------------------
(* the prior without temporal dependence *)

\* frame f lies in (all-trial mask OR pavlovian mask) AND NOT blank mask
InExclusionMask(f) ==
    /\ ~IsNone(trial_masks)
    /\ Val(trial_masks).all[f] \/ Val(trial_masks).pav[f]
    /\ ~Val(trial_masks).blank[f]

\* C16: with temporal-dependent-priors false, the prior handed to
\* assign_temporal_priors is 0 on the frames of (all-trial mask OR pavlovian
\* mask) AND NOT blank mask and 1 on every other frame, whether or not a
\* replace_temporal_prior was supplied.
C16_UniformPriorOutsideMask ==
    (~params.temporal_dependent_priors /\ ~IsNone(used_priors)) =>
        /\ DOMAIN Val(used_priors).tprior = 1 .. NFrames
        /\ \A f \in 1 .. NFrames :
               Val(used_priors).tprior[f] = IF InExclusionMask(f) THEN 0 ELSE 1

\* a prior built with a replacement supplied, one frame zeroed by the
\* all-trial mask and another kept by the blank mask
C16_Witness ==
    /\ ~params.temporal_dependent_priors
    /\ ~IsNone(used_priors)
    /\ ~IsNone(replace_temporal_prior)
    /\ ~IsNone(trial_masks)
    /\ Val(trial_masks).all[1] /\ ~Val(trial_masks).blank[1]
    /\ Val(used_priors).tprior[1] = 0
    /\ Val(used_priors).tprior[2] = 1

----------------------------------------------------------------------------
(* the parameters in frames *)

\* the milliseconds of a key after the overrides
MsAfterOverrides(underscored, dashed) ==
    IF underscored \in DOMAIN pars THEN pars[underscored].v[1]
    ELSE ConfigDefault[dashed].v[1]

\* frames is an integer nearest to ms/1000 * the training date's frame rate
NearestFrames(frames, ms) ==
    LET tenths == IF Val(training_date) = 1 THEN 155 ELSE 50
        d == 10000 * frames - ms * tenths
    IN  -5000 <= d /\ d <= 5000

\* C17: once train_classifier has its parameters, each frame field is
\* ms/1000 * framerate rounded to a nearest integer, ms being the field's
\* millisecond parameter after the overrides and framerate that of the
\* resolved training date; an integer exclusion time gives both entries of
\* the exclusion frames.
C17_FrameFieldsAreRoundedMs ==
    pc = "converted" =>
        LET given == "excluded_time_around_onsets_ms" \in DOMAIN pars
            excl == IF given THEN pars["excluded_time_around_onsets_ms"]
                    ELSE ConfigDefault["excluded-time-around-onsets-ms"]
            pre == excl.v[1]
            post == IF excl.type = "int" THEN excl.v[1] ELSE excl.v[2]
        IN  /\ NearestFrames(params["stimulus-frames"].v[1],
                             MsAfterOverrides("stimulus_training_ms",
                                              "stimulus-training-ms"))
            /\ NearestFrames(params["stimulus-offset-frames"].v[1],
                             MsAfterOverrides("stimulus_training_offset_ms",
                                              "stimulus-training-offset-ms"))
            /\ NearestFrames(params["classification-frames"].v[1],
                             MsAfterOverrides("classification_ms",
                                              "classification-ms"))
            /\ NearestFrames(params["temporal-prior-fwhm-frames"].v[1],
                             MsAfterOverrides("temporal_prior_fwhm_ms",
                                              "temporal-prior-fwhm-ms"))
            /\ params["excluded-time-around-onsets-frames"].type = "tuple"
            /\ NearestFrames(params["excluded-time-around-onsets-frames"].v[1],
                             pre)
            /\ NearestFrames(params["excluded-time-around-onsets-frames"].v[2],
                             post)

\* parameters converted at 15.5 frames per second with the classification
\* window and an integer exclusion time overridden
C17_Witness ==
    /\ pc = "converted"
    /\ Val(training_date) = 1
    /\ "classification_ms" \in DOMAIN pars
    /\ "excluded_time_around_onsets_ms" \in DOMAIN pars
    /\ pars["excluded_time_around_onsets_ms"] = PyInt(300)
    /\ params["excluded-time-around-onsets-frames"] = PyTuple(5, 5)
    /\ params["classification-frames"] = PyInt(5)
    /\ params["stimulus-frames"] = PyInt(31)

----------------------------------------------------------------------------
(* the metadata catalog *)

AddCalls == {"add_mouse", "add_date", "add_run"}

\* the metadata as it stood when the last call began
Held == before.file

HasMouse(metadata, mouse) ==
    \E i \in 1 .. Len(metadata.mice) : metadata.mice[i].name = mouse

MouseOf(metadata, mouse) ==
    metadata.mice[CHOOSE i \in 1 .. Len(metadata.mice) :
                      metadata.mice[i].name = mouse]

HasDate(metadata, mouse, date) ==
    /\ HasMouse(metadata, mouse)
    /\ \E j \in 1 .. Len(MouseOf(metadata, mouse).dates) :
           MouseOf(metadata, mouse).dates[j].date = date

DateOf(metadata, mouse, date) ==
    LET dates == MouseOf(metadata, mouse).dates
    IN  dates[CHOOSE j \in 1 .. Len(dates) : dates[j].date = date]

HasRun(metadata, mouse, date, run_id) ==
    /\ HasDate(metadata, mouse, date)
    /\ \E k \in 1 .. Len(DateOf(metadata, mouse, date).runs) :
           DateOf(metadata, mouse, date).runs[k].run = run_id

RunOf(metadata, mouse, date, run_id) ==
    LET rs == DateOf(metadata, mouse, date).runs
    IN  rs[CHOOSE k \in 1 .. Len(rs) : rs[k].run = run_id]

\* the entry the last call names was in the metadata when the call began
EntryExisted ==
    \/ call.op = "add_mouse" /\ HasMouse(Held, call.mouse)
    \/ call.op = "add_date" /\ HasDate(Held, call.mouse, call.date)
    \/ call.op = "add_run" /\ HasRun(Held, call.mouse, call.date, call.run)

\* a parent of the entry the last call names was not in the metadata
ParentMissing ==
    \/ call.op = "add_date" /\ ~HasMouse(Held, call.mouse)
    \/ call.op = "add_run" /\ ~HasDate(Held, call.mouse, call.date)

\* the file is as it was, and the cache holds what it held: the dictionary it
\* held when the call began or, if it held none, the content of the file
FileAndCacheKept ==
    /\ file = before.file
    /\ metadata_cache \in {before.cache, Some(before.file)}
    /\ ~IsNone(before.cache) => metadata_cache = before.cache

\* C18: add_mouse, add_date and add_run for an entry that exists, with
\* overwrite and update both false, raise AlreadyPresentError and leave the
\* metadata file and the cached metadata as they were.
C18_ExistingEntryIsRefused ==
    (call.op \in AddCalls /\ ~call.overwrite /\ ~call.update /\ EntryExisted)
    => call.raised = "AlreadyPresentError" /\ FileAndCacheKept

\* add_run was refused for a run that exists, with the cache loaded before
C18_Witness ==
    /\ call.op = "add_run"
    /\ call.raised = "AlreadyPresentError"
    /\ ~IsNone(before.cache)
    /\ HasRun(Held, call.mouse, call.date, call.run)
    /\ file = StoredFile

\* C19 as stated: add_date for a mouse that is missing and add_run for a
\* mouse or date that is missing raise MissingParentError and leave the
\* metadata file and the cached metadata as they were.
C19_MissingParentIsRefused ==
    ParentMissing => call.raised = "MissingParentError" /\ FileAndCacheKept

\* C19 as amended: unless overwrite and update are both set, add_date for a
\* mouse that is missing and add_run for a mouse or date that is missing raise
\* MissingParentError; with or without the two flags the metadata file and the
\* cached metadata are left as they were.
C19_MissingParentIsRefusedUnlessBothFlags ==
    ParentMissing =>
        /\ FileAndCacheKept
        /\ call.raised = IF call.overwrite /\ call.update THEN "ValueError"
                         ELSE "MissingParentError"

\* add_run was refused for a date that is missing under a mouse that exists,
\* and the mouse is still in the file and in the cache
C19_Witness ==
    /\ call.op = "add_run"
    /\ call.raised = "MissingParentError"
    /\ HasMouse(Held, call.mouse)
    /\ ~HasDate(Held, call.mouse, call.date)
    /\ HasMouse(file, call.mouse)
    /\ HasMouse(Val(metadata_cache), call.mouse)

\* the list a key holds after an update: what was stored, then what is passed
Appended(held, given) ==
    Some((IF held = None THEN <<>> ELSE held[1])
         \o (IF given = None THEN <<>> ELSE given[1]))

\* the entry an update is to leave in place of the one that was there
UpdatedMouse(old) ==
    [old EXCEPT !.tags = Appended(old.tags, call.tags)]

UpdatedDate(old) ==
    [old EXCEPT !.tags = Appended(old.tags, call.tags),
                !.photometry = Appended(old.photometry, call.photometry)]

UpdatedRun(old) ==
    [old EXCEPT !.tags = Appended(old.tags, call.tags),
                !.run_type = call.run_type]

\* the metadata with the entry the call names updated and nothing else changed
UpdatedFile ==
    [mice |->
        [i \in 1 .. Len(Held.mice) |->
            LET m == Held.mice[i]
            IN  IF m.name # call.mouse THEN m
                ELSE IF call.op = "add_mouse" THEN UpdatedMouse(m)
                ELSE [m EXCEPT !.dates =
                    [j \in 1 .. Len(m.dates) |->
                        LET d == m.dates[j]
                        IN  IF d.date # call.date THEN d
                            ELSE IF call.op = "add_date" THEN UpdatedDate(d)
                            ELSE [d EXCEPT !.runs =
                                [k \in 1 .. Len(d.runs) |->
                                    IF d.runs[k].run # call.run THEN d.runs[k]
                                    ELSE UpdatedRun(d.runs[k])]]]]]]

\* C20 as stated: add_mouse, add_date and add_run with update=True on an
\* entry that exists keep its children and its stored tags and photometry,
\* append the passed tags, replace a run's run_type, and leave every other
\* mouse, date and run as it was.
C20_UpdateKeepsAndAppends ==
    (call.op \in AddCalls /\ call.update /\ EntryExisted) =>
        call.raised = "none" /\ file = UpdatedFile

\* C20 as amended: the same for update=True with overwrite=False.
C20_UpdateWithoutOverwriteKeepsAndAppends ==
    (call.op \in AddCalls /\ call.update /\ ~call.overwrite /\ EntryExisted) =>
        call.raised = "none" /\ file = UpdatedFile

\* a run with stored tags and a sibling was updated with a tag and a new
\* run_type
C20_Witness ==
    /\ call.op = "add_run"
    /\ call.update /\ ~call.overwrite
    /\ call.raised = "none"
    /\ call.tags = Some(<<"t">>)
    /\ Held = StoredFile
    /\ call.mouse = "A" /\ call.date = 1 /\ call.run = 1
    /\ RunOf(file, "A", 1, 1) =
           RunEntry(1, "running", Some(<<"hungry", "t">>))
    /\ RunOf(file, "A", 1, 2) = RunOf(Held, "A", 1, 2)

----------------------------------------------------------------------------
(* _get_traces: the windows without a stimulus *)

\* C22: every window without a stimulus of a training run other than the
\* target run that has speed data is appended to 'other-running' or to
\* 'other', which exist whenever such a window is routed, so the pass over a
\* training run never fails for want of a bucket; and no such window is taken
\* from the target run.
C22_OtherWindowsAreRouted ==
    /\ pc = "loop" => failure # "KeyError"
    /\ \A cs \in DOMAIN out :
           \A i \in 1 .. Len(out[cs]) :
               out[cs][i].via = "nocs" =>
                   /\ out[cs][i].run # run
                   /\ cs \in {"other", "other-running"}

UniqueEntries(metadata) ==
    /\ \A i, j \in 1 .. Len(metadata.mice) :
           metadata.mice[i].name = metadata.mice[j].name => i = j
    /\ \A i \in 1 .. Len(metadata.mice) :
           LET dates == metadata.mice[i].dates
           IN  /\ \A j, k \in 1 .. Len(dates) :
                      dates[j].date = dates[k].date => j = k
               /\ \A j \in 1 .. Len(dates) :
                      \A k, l \in 1 .. Len(dates[j].runs) :
                          dates[j].runs[k].run = dates[j].runs[l].run => k = l

\* C24: after any add_mouse, add_date and add_run calls on metadata whose
\* entries are unique, whatever the flags and whether the calls succeed or
\* raise, the file and the cached metadata hold at most one mouse per name, one
\* date per mouse and date and one run per mouse, date and run, and no call
\* fails an assertion.
C24_EntriesStayUnique ==
    /\ UniqueEntries(file)
    /\ ~IsNone(metadata_cache) => UniqueEntries(Val(metadata_cache))
    /\ call.raised # "AssertionError"

\* the second call has put a run in the place of one that existed
C24_Witness ==
    /\ ncalls = MaxCalls
    /\ call.op = "add_run"
    /\ call.raised = "none"
    /\ call.overwrite
    /\ HasRun(Held, call.mouse, call.date, call.run)
    /\ Len(DateOf(file, call.mouse, call.date).runs)
           = Len(DateOf(Held, call.mouse, call.date).runs)

(* the metadata catalog: the cache and the file *)
\* C25: after any add_mouse, add_date and add_run calls, whether they
\* succeeded or raised, what parser.meta_dict() without reload returns next is
\* the content of the metadata file, which is the content last saved: a call
\* that raised has left the file alone, and neither a save nor the changes a
\* call made to the dictionary meta_dict gave it have left the cache different
\* from the file.
C25_CacheIsNeverStale ==
    /\ Loaded(metadata_cache, file) = file
    /\ (call.op \in AddCalls /\ call.raised # "none") => file = before.file

\* a call has changed the file while the cache held the content of before
C25_Witness ==
    /\ call.op \in AddCalls
    /\ call.raised = "none"
    /\ ~IsNone(before.cache)
    /\ file # before.file
    /\ IsNone(metadata_cache)

(* runs() after add_run *)
\* the tags add_run was called with, as a set
TagsOf(tags) == IF IsNone(tags) THEN {} ELSE SeqRange(Val(tags))

\* C21: when runs(mouse, date, run_types=R, tags=Q) is called after
\* add_run(mouse, date, run, run_type, tags=T) succeeded, it returns a sorted
\* list, which holds the run if and only if R is None or holds run_type, every
\* tag of Q is in T and T does not hold the tag 'bad'.
C21_RunsListsAddedRun ==
    (/\ call.op = "runs"
     /\ last_added.op = "add_run"
     /\ call.mouse = last_added.mouse
     /\ call.date = last_added.date)
    => /\ call.raised = "none"
       /\ ~IsNone(listed.returned)
       /\ \A i, j \in 1 .. Len(Val(listed.returned)) :
              i < j => Val(listed.returned)[i] <= Val(listed.returned)[j]
       /\ last_added.run \in SeqRange(Val(listed.returned))
              <=> /\ IsNone(listed.run_types)
                     \/ last_added.run_type \in SeqRange(Val(listed.run_types))
                  /\ TagsOf(call.tags) \subseteq TagsOf(last_added.tags)
                  /\ "bad" \notin TagsOf(last_added.tags)

====
